---- MODULE Spec2Model ----
(***************************************************************************)
(* Strategy analysis, filter/ranking and backtesting engine of             *)
(* bifrost-trader-option.                                                  *)
(*                                                                         *)
(* Numbers.  The Python code computes in floats; the model computes in     *)
(* exact fixed-point arithmetic:                                           *)
(*   - prices, strikes, premiums and money amounts are whole cents;        *)
(*   - per-leg Greeks and aggregate Greeks are hundredths;                 *)
(*   - a quotient that is not rounded by the code is kept as a fraction    *)
(*     [num, den]; round(x, n) is round-half-even on the exact quotient.   *)
(* An Optional value is a set: None is {}, a present value x is {x}.      *)
(***************************************************************************)
EXTENDS Integers, Sequences, FiniteSets, TLC

VARIABLES
    strategy,     \* the constructed strategy object (CoveredCall / IronCondor)
    pnl,          \* last calculate_profit_loss call: {[price, value]}, or NoCall
    ret,          \* last other call: {[op, value]} or {[op, args, value]}, or NoCall
    results,      \* the caller's list of StrategyResult handed to filter / rank
    filtered,     \* filter calls composed so far: [applied, out], or NoCall
    ranked,       \* rank(results), or NoCall
    rankedRev,    \* rank(reversed(results)), or NoCall
    history,      \* historical series: sequence of rows [timestamp, underlying_price]
    btSimple,     \* BacktestResult of _backtest_simple, or NoCall
    btVector,     \* BacktestResult of VectorBTEngine.run_backtest, or NoCall
    chain,        \* the OptionsChain handed to the StrategyAnalyzer
    backtester,   \* the StrategyBacktester object [use_vectorbt, engine], or NoCall
    VECTORBT_AVAILABLE, \* module global of vectorbt_engine: the import succeeded
    PY_VOLLIB_AVAILABLE, \* module global of utils/pricing: py_vollib was imported
    QUANTLIB_AVAILABLE, \* module global of utils/pricing: QuantLib was imported
    _analyzer,    \* module global of analyzer/analyzer: the shared StrategyAnalyzer
    _filter_engine, \* module global of analyzer/filter: the shared FilterEngine
    tasks,        \* the concurrent callers: task id -> [pc, call, self, value]
    heap          \* the engine objects created so far: object id -> attributes

vars == <<strategy, pnl, ret, results, filtered, ranked, rankedRev,
          history, btSimple, btVector, chain, backtester, VECTORBT_AVAILABLE,
          PY_VOLLIB_AVAILABLE, QUANTLIB_AVAILABLE, _analyzer, _filter_engine, tasks, heap>>

None == {}
Some(x) == {x}
TheVal(o) == CHOOSE x \in o : TRUE
NoCall == {}
Idle == <<>>

\* the pricing module and the shared analyzer / filter engine are not in use
ModulesIdle ==
    /\ PY_VOLLIB_AVAILABLE = Idle /\ QUANTLIB_AVAILABLE = Idle
    /\ _analyzer = Idle /\ _filter_engine = Idle /\ tasks = Idle /\ heap = Idle

COVERED_CALL == "covered_call"
IRON_CONDOR == "iron_condor"
CALL == "CALL"
PUT == "PUT"

\* the outcome of a call: an exception raised to the caller, or a returned value
Raise(e) == [raised |-> Some(e), value |-> None]
Return(v) == [raised |-> None, value |-> Some(v)]

(***************************************************************************)
(* Bounds of the model.                                                    *)
(***************************************************************************)
MaxQuantity == 2
MaxResults == 3
MaxHistory == 3
MaxStrategies == 2
MaxTasks == 2

(***************************************************************************)
(* Arithmetic helpers (Python builtins).                                   *)
(***************************************************************************)
Abs(x) == IF x < 0 THEN -x ELSE x
Max(a, b) == IF a >= b THEN a ELSE b
Min(a, b) == IF a <= b THEN a ELSE b

RECURSIVE GCD(_, _)
\* greatest common divisor of a > 0 and b >= 0
GCD(a, b) == IF b = 0 THEN a ELSE GCD(b, a % b)

RECURSIVE FloorScaled(_, _, _)
\* floor((n / d) * 10^k) with its remainder, by long division; n >= 0, d > 0.
FloorScaled(n, d, k) ==
    IF k = 0 THEN [q |-> n \div d, r |-> n % d]
    ELSE LET prev == FloorScaled(n, d, k - 1)
         IN  [q |-> prev.q * 10 + (prev.r * 10) \div d, r |-> (prev.r * 10) % d]

\* round((n / d), k) in units of 10^-k: round half to even, as Python's round().
RoundAbs(n, d, k) ==
    LET f == FloorScaled(n, d, k)
    IN  IF 2 * f.r > d \/ (2 * f.r = d /\ f.q % 2 = 1) THEN f.q + 1 ELSE f.q

Round(n, d, k) ==
    IF d < 0 THEN (IF n > 0 THEN -RoundAbs(n, -d, k) ELSE RoundAbs(-n, -d, k))
    ELSE IF n < 0 THEN -RoundAbs(-n, d, k) ELSE RoundAbs(n, d, k)

\* a float quotient num / den kept exact
Frac(n, d) == [num |-> n, den |-> d]

(***************************************************************************)
(* CoveredCall (src/src/strategies/covered_call.py).                       *)
(***************************************************************************)
CoveredCall(symbol, stock_price, stock_quantity, call_contract, call_quantity) ==
    [strategy_type |-> COVERED_CALL,
     symbol |-> symbol,
     stock_price |-> stock_price,
     stock_quantity |-> stock_quantity,
     call_contract |-> call_contract,
     call_quantity |-> call_quantity,
     call_strike |-> call_contract.strike,
     call_premium |-> call_contract.bid]

CoveredCall_calculate_entry_cost(s) ==
    LET stock_cost == s.stock_price * s.stock_quantity
        premium_received == s.call_premium * 100 * s.call_quantity
    IN  stock_cost - premium_received

\* mutant: above the strike the premium is forgotten, a jump at the strike
Mutant_CoveredCall_profit_loss_jump(s, underlying_price) ==
    IF underlying_price <= s.call_strike
    THEN (underlying_price - s.stock_price) * s.stock_quantity
         + s.call_premium * 100 * s.call_quantity
    ELSE (underlying_price - s.stock_price) * s.stock_quantity
         - (underlying_price - s.call_strike) * 100 * s.call_quantity

CoveredCall_calculate_profit_loss(s, underlying_price) ==
    LET stock_pnl == (underlying_price - s.stock_price) * s.stock_quantity
        call_pnl ==
            IF underlying_price <= s.call_strike
            THEN s.call_premium * 100 * s.call_quantity
            ELSE s.call_premium * 100 * s.call_quantity
                 - (underlying_price - s.call_strike) * 100 * s.call_quantity
    IN  stock_pnl + call_pnl

\* mutant: the stock leg's gain up to the strike is dropped
Mutant_CoveredCall_max_profit_premium_only(s) ==
    s.call_premium * 100 * s.call_quantity

CoveredCall_calculate_max_profit(s) ==
    IF s.call_strike >= s.stock_price
    THEN (s.call_strike - s.stock_price) * s.stock_quantity
         + s.call_premium * 100 * s.call_quantity
    ELSE s.call_premium * 100 * s.call_quantity

CoveredCall_calculate_max_loss(s) ==
    LET stock_cost == s.stock_price * s.stock_quantity
        premium_received == s.call_premium * 100 * s.call_quantity
        max_loss == stock_cost - premium_received
    IN  Max(max_loss, 0)

\* breakeven = stock_price - premium*100*call_quantity / stock_quantity, round(.., 2)
CoveredCall_calculate_breakeven_points(s) ==
    LET num == s.stock_price * s.stock_quantity
               - s.call_premium * 100 * s.call_quantity
    IN  << [price |-> Round(num, s.stock_quantity, 0), direction |-> "below"] >>

\* "x if contract.greek else 0.0": None and 0 both give 0
GreekOrZero(g, sign, quantity) ==
    IF g = None \/ g = Some(0) THEN 0 ELSE sign * TheVal(g) * 100 * quantity

CoveredCall_calculate_greeks(s) ==
    IF s.call_contract.delta = None THEN None
    ELSE LET stock_delta == 100 * s.stock_quantity
             call_delta == -TheVal(s.call_contract.delta) * 100 * s.call_quantity
         IN  Some([delta |-> stock_delta + call_delta,
                   gamma |-> GreekOrZero(s.call_contract.gamma, -1, s.call_quantity),
                   theta |-> GreekOrZero(s.call_contract.theta, -1, s.call_quantity),
                   vega |-> GreekOrZero(s.call_contract.vega, -1, s.call_quantity)])

CoveredCall_get_parameters(s) ==
    [stock_price |-> s.stock_price,
     stock_quantity |-> s.stock_quantity,
     call_strike |-> s.call_strike,
     call_expiration |-> s.call_contract.expiration,
     call_premium |-> s.call_premium,
     call_quantity |-> s.call_quantity]

\* mutant: only None is falsy
Mutant_Or_none_only(a, b) == IF a = None THEN b ELSE a

\* Python "a or b" on Optional numbers: None and 0 are falsy
Or(a, b) == IF a = None \/ a = Some(0) THEN b ELSE a

\* CoveredCall.from_params: stock_price and params.stock_price are Optional
CoveredCall_from_params(params, call_contract, stock_price) ==
    LET price == Or(stock_price, params.stock_price)
    IN  IF price = None THEN Raise("ValueError")
        ELSE Return(CoveredCall(params.symbol, TheVal(price), params.stock_quantity,
                                call_contract, params.quantity))

(***************************************************************************)
(* IronCondor (src/src/strategies/iron_condor.py).                         *)
(***************************************************************************)
\* mutant: equal strikes pass the validation
Mutant_IronCondor_valid_nonstrict(put_sell_contract, put_buy_contract, call_sell_contract, call_buy_contract) ==
    /\ ~(put_buy_contract.strike > put_sell_contract.strike)
    /\ ~(call_sell_contract.strike > call_buy_contract.strike)
    /\ ~(put_sell_contract.strike > call_sell_contract.strike)

\* the constructor's validation: TRUE iff no ValueError is raised
IronCondor_valid(put_sell_contract, put_buy_contract, call_sell_contract, call_buy_contract) ==
    /\ ~(put_buy_contract.strike >= put_sell_contract.strike)
    /\ ~(call_sell_contract.strike >= call_buy_contract.strike)
    /\ ~(put_sell_contract.strike >= call_sell_contract.strike)

IronCondor(symbol, put_sell_contract, put_buy_contract, call_sell_contract, call_buy_contract, quantity) ==
    [strategy_type |-> IRON_CONDOR,
     symbol |-> symbol,
     put_sell_contract |-> put_sell_contract,
     put_buy_contract |-> put_buy_contract,
     call_sell_contract |-> call_sell_contract,
     call_buy_contract |-> call_buy_contract,
     quantity |-> quantity]

\* IronCondor(...) as the caller sees it: the object, or the ValueError of the validation
IronCondor_init(symbol, put_sell_contract, put_buy_contract, call_sell_contract, call_buy_contract, quantity) ==
    IF IronCondor_valid(put_sell_contract, put_buy_contract, call_sell_contract, call_buy_contract)
    THEN Return(IronCondor(symbol, put_sell_contract, put_buy_contract,
                           call_sell_contract, call_buy_contract, quantity))
    ELSE Raise("ValueError")

IronCondor_from_params(params, put_sell_contract, put_buy_contract, call_sell_contract, call_buy_contract) ==
    IronCondor_init(params.symbol, put_sell_contract, put_buy_contract,
                    call_sell_contract, call_buy_contract, params.quantity)

IronCondor_get_parameters(s) ==
    [put_sell_strike |-> s.put_sell_contract.strike,
     put_buy_strike |-> s.put_buy_contract.strike,
     call_sell_strike |-> s.call_sell_contract.strike,
     call_buy_strike |-> s.call_buy_contract.strike,
     expiration |-> s.put_sell_contract.expiration,
     quantity |-> s.quantity,
     put_sell_premium |-> s.put_sell_contract.bid,
     put_buy_premium |-> s.put_buy_contract.ask,
     call_sell_premium |-> s.call_sell_contract.bid,
     call_buy_premium |-> s.call_buy_contract.ask]

\* mutant: the net credit is returned without the sign change
Mutant_IronCondor_entry_cost_unsigned(s) ==
    ((s.put_sell_contract.bid + s.call_sell_contract.bid)
     - (s.put_buy_contract.ask + s.call_buy_contract.ask)) * 100 * s.quantity

IronCondor_calculate_entry_cost(s) ==
    LET put_sell_premium == s.put_sell_contract.bid * 100 * s.quantity
        call_sell_premium == s.call_sell_contract.bid * 100 * s.quantity
        put_buy_premium == s.put_buy_contract.ask * 100 * s.quantity
        call_buy_premium == s.call_buy_contract.ask * 100 * s.quantity
        net_credit == (put_sell_premium + call_sell_premium)
                      - (put_buy_premium + call_buy_premium)
    IN  -net_credit

IronCondor_calculate_profit_loss(s, underlying_price) ==
    LET put_net == (s.put_sell_contract.bid - s.put_buy_contract.ask) * 100 * s.quantity
        put_pnl ==
            IF underlying_price >= s.put_sell_contract.strike THEN put_net
            ELSE IF underlying_price <= s.put_buy_contract.strike
            THEN -(s.put_sell_contract.strike - s.put_buy_contract.strike) * 100 * s.quantity
                 + put_net
            ELSE -(s.put_sell_contract.strike - underlying_price) * 100 * s.quantity
                 + put_net
        call_net == (s.call_sell_contract.bid - s.call_buy_contract.ask) * 100 * s.quantity
        call_pnl ==
            IF underlying_price <= s.call_sell_contract.strike THEN call_net
            ELSE IF underlying_price >= s.call_buy_contract.strike
            THEN -(s.call_buy_contract.strike - s.call_sell_contract.strike) * 100 * s.quantity
                 + call_net
            ELSE -(underlying_price - s.call_sell_contract.strike) * 100 * s.quantity
                 + call_net
    IN  put_pnl + call_pnl

IronCondor_calculate_max_profit(s) ==
    LET net_credit == -IronCondor_calculate_entry_cost(s)
    IN  net_credit

\* mutant: only the put spread is counted
Mutant_IronCondor_max_loss_put_spread_only(s) ==
    Max((s.put_sell_contract.strike - s.put_buy_contract.strike) * 100 * s.quantity
        + IronCondor_calculate_entry_cost(s), 0)

IronCondor_calculate_max_loss(s) ==
    LET put_spread_width ==
            (s.put_sell_contract.strike - s.put_buy_contract.strike) * 100 * s.quantity
        call_spread_width ==
            (s.call_buy_contract.strike - s.call_sell_contract.strike) * 100 * s.quantity
        net_credit == -IronCondor_calculate_entry_cost(s)
        max_loss == put_spread_width + call_spread_width - net_credit
    IN  Max(max_loss, 0)

\* strike -/+ net_credit / (100 * quantity), each round(.., 2)
IronCondor_calculate_breakeven_points(s) ==
    LET net_credit == -IronCondor_calculate_entry_cost(s)
        den == 100 * s.quantity
        lower_num == s.put_sell_contract.strike * den - net_credit
        upper_num == s.call_sell_contract.strike * den + net_credit
    IN  << [price |-> Round(lower_num, den, 0), direction |-> "below"],
           [price |-> Round(upper_num, den, 0), direction |-> "above"] >>

IronCondor_calculate_greeks(s) ==
    IF \/ s.put_sell_contract.delta = None
       \/ s.put_buy_contract.delta = None
       \/ s.call_sell_contract.delta = None
       \/ s.call_buy_contract.delta = None
    THEN None
    ELSE LET q == s.quantity
             ps == s.put_sell_contract
             pb == s.put_buy_contract
             cs == s.call_sell_contract
             cb == s.call_buy_contract
         IN  Some([delta |-> -TheVal(ps.delta) * 100 * q + TheVal(pb.delta) * 100 * q
                             - TheVal(cs.delta) * 100 * q + TheVal(cb.delta) * 100 * q,
                   gamma |-> GreekOrZero(ps.gamma, -1, q) + GreekOrZero(pb.gamma, 1, q)
                             + GreekOrZero(cs.gamma, -1, q) + GreekOrZero(cb.gamma, 1, q),
                   theta |-> GreekOrZero(ps.theta, -1, q) + GreekOrZero(pb.theta, 1, q)
                             + GreekOrZero(cs.theta, -1, q) + GreekOrZero(cb.theta, 1, q),
                   vega |-> GreekOrZero(ps.vega, -1, q) + GreekOrZero(pb.vega, 1, q)
                            + GreekOrZero(cs.vega, -1, q) + GreekOrZero(cb.vega, 1, q)])

(***************************************************************************)
(* BaseStrategy (src/src/strategies/base_strategy.py): the abstract        *)
(* methods dispatch on the concrete class.                                 *)
(***************************************************************************)
calculate_entry_cost(s) ==
    IF s.strategy_type = COVERED_CALL THEN CoveredCall_calculate_entry_cost(s)
    ELSE IronCondor_calculate_entry_cost(s)

calculate_profit_loss(s, underlying_price) ==
    IF s.strategy_type = COVERED_CALL
    THEN CoveredCall_calculate_profit_loss(s, underlying_price)
    ELSE IronCondor_calculate_profit_loss(s, underlying_price)

calculate_max_profit(s) ==
    IF s.strategy_type = COVERED_CALL THEN CoveredCall_calculate_max_profit(s)
    ELSE IronCondor_calculate_max_profit(s)

calculate_max_loss(s) ==
    IF s.strategy_type = COVERED_CALL THEN CoveredCall_calculate_max_loss(s)
    ELSE IronCondor_calculate_max_loss(s)

calculate_breakeven_points(s) ==
    IF s.strategy_type = COVERED_CALL THEN CoveredCall_calculate_breakeven_points(s)
    ELSE IronCondor_calculate_breakeven_points(s)

calculate_greeks(s) ==
    IF s.strategy_type = COVERED_CALL THEN CoveredCall_calculate_greeks(s)
    ELSE IronCondor_calculate_greeks(s)

_get_parameters(s) ==
    IF s.strategy_type = COVERED_CALL THEN CoveredCall_get_parameters(s)
    ELSE IronCondor_get_parameters(s)

\* the strategy with every price (strikes, premiums, stock price) multiplied by k
ScaledContract(c, k) == [c EXCEPT !.strike = @ * k, !.bid = @ * k, !.ask = @ * k]

ScaledStrategy(s, k) ==
    IF s.strategy_type = COVERED_CALL
    THEN [s EXCEPT !.stock_price = @ * k, !.call_strike = @ * k, !.call_premium = @ * k,
                   !.call_contract = ScaledContract(@, k)]
    ELSE [s EXCEPT !.put_sell_contract = ScaledContract(@, k),
                   !.put_buy_contract = ScaledContract(@, k),
                   !.call_sell_contract = ScaledContract(@, k),
                   !.call_buy_contract = ScaledContract(@, k)]

\* den * calculate_profit_loss(num / den), den > 0: the payoff at a price that is not a
\* whole number of cents, exactly (the payoff scales with the prices)
ProfitLossTimes(s, num, den) == calculate_profit_loss(ScaledStrategy(s, den), num)

\* mutant: the grid stops one step short of max_price
Mutant_generate_profit_profile_short(s, min_price, max_price, num_points) ==
    LET point(i) ==
            LET num == min_price * (num_points + 1) + i * (max_price - min_price)
            IN  [underlying_price |-> Round(num, num_points + 1, 0),
                 profit_loss |-> Round(ProfitLossTimes(s, num, num_points + 1), num_points + 1, 0),
                 roi |-> 0]
    IN  [i \in 1..(num_points + 1) |-> point(i - 1)]

\* Points i = 0 .. num_points at price = min_price + i * price_step, num_points >= 1;
\* the price is the exact fraction num / num_points, each field is round(.., 2).
generate_profit_profile(s, min_price, max_price, num_points) ==
    LET entry_cost == calculate_entry_cost(s)
        point(i) ==
            LET num == min_price * num_points + i * (max_price - min_price)
                profit_loss_times == ProfitLossTimes(s, num, num_points)
                \* profit_loss / abs(entry_cost) * 100, the fraction reduced by gcd(100, num_points)
                g == GCD(100, num_points)
                roi == IF entry_cost # 0
                       THEN Round(profit_loss_times * (100 \div g), Abs(entry_cost) * (num_points \div g), 2)
                       ELSE 0
            IN  [underlying_price |-> Round(num, num_points, 0),
                 profit_loss |-> Round(profit_loss_times, num_points, 0),
                 roi |-> roi]
    IN  [i \in 1..(num_points + 1) |-> point(i - 1)]

\* max_profit / max_loss as an exact fraction, None if max_loss == 0
calculate_risk_reward_ratio(s) ==
    LET max_profit == calculate_max_profit(s)
        max_loss == calculate_max_loss(s)
    IN  IF max_loss = 0 THEN None ELSE Some(Frac(max_profit, max_loss))

\* min(max(abs(delta), 0.0), 1.0), in hundredths
calculate_probability_of_profit(s) ==
    LET greeks == calculate_greeks(s)
    IN  IF greeks = None THEN None
        ELSE Some(Min(Max(Abs(TheVal(greeks).delta), 0), 100))

ANALYZE_MIN_PRICE == 0
ANALYZE_MAX_PRICE == 50000
DEFAULT_NUM_POINTS == 100

\* StrategyResult; money in cents, probability_of_profit and risk_reward_ratio
\* in units of 10^-4.  "round(x, 4) if x else None": None and 0.0 both give None.
analyze(s) ==
    LET entry_cost == calculate_entry_cost(s)
        max_profit == calculate_max_profit(s)
        max_loss == calculate_max_loss(s)
        breakeven_points == calculate_breakeven_points(s)
        greeks == calculate_greeks(s)
        profit_profile == generate_profit_profile(s, ANALYZE_MIN_PRICE,
                                                  ANALYZE_MAX_PRICE, DEFAULT_NUM_POINTS)
        risk_reward == calculate_risk_reward_ratio(s)
        prob_of_profit == calculate_probability_of_profit(s)
    IN  [strategy_type |-> s.strategy_type,
         symbol |-> s.symbol,
         parameters |-> _get_parameters(s),
         entry_cost |-> Round(entry_cost, 1, 0),
         max_profit |-> Round(max_profit, 1, 0),
         max_loss |-> Round(max_loss, 1, 0),
         breakeven_points |-> breakeven_points,
         profit_profile |-> profit_profile,
         greeks |-> greeks,
         probability_of_profit |->
             IF prob_of_profit = None \/ prob_of_profit = Some(0) THEN None
             ELSE Some(Round(TheVal(prob_of_profit), 100, 4)),
         risk_reward_ratio |->
             IF risk_reward = None \/ TheVal(risk_reward).num = 0 THEN None
             ELSE Some(Round(TheVal(risk_reward).num, TheVal(risk_reward).den, 4))]

(***************************************************************************)
(* Inputs: option contracts and the strategies built from them.            *)
(***************************************************************************)
SYMBOL == "AAPL"

Strikes == {1400, 1450, 1500, 1550, 1600}
DeepStrikes == {1000}
StockPrices == {1450, 1500}
StockQuantities == {100, 30}
CallPremiums == {0, 25, 250}
SellBids == {0, 11, 30, 120}
BuyAsks == {0, 11}
Quantities == 1..MaxQuantity

\* per-leg Greeks in hundredths: all four present, or exactly one missing
FullGreeks(d) == [delta |-> Some(d), gamma |-> Some(2), theta |-> Some(-5), vega |-> Some(15)]
GreekProfiles(ds) ==
    {FullGreeks(d) : d \in ds}
    \cup {[FullGreeks(20) EXCEPT !.delta = None], [FullGreeks(20) EXCEPT !.gamma = None],
          [FullGreeks(20) EXCEPT !.theta = None], [FullGreeks(20) EXCEPT !.vega = None]}

EXPIRATION == "20240119"

\* OptionContract of one leg; sign = -1 for a put (negative delta)
Contract(strike, bid, ask, g, sign) ==
    [symbol |-> SYMBOL, strike |-> strike, expiration |-> EXPIRATION,
     option_type |-> IF sign = 1 THEN CALL ELSE PUT, bid |-> bid, ask |-> ask,
     delta |-> {sign * d : d \in g.delta},
     gamma |-> g.gamma, theta |-> g.theta, vega |-> g.vega]

CoveredCallInputs(strikes, stockPrices, stockQuantities, premiums, profiles) ==
    {CoveredCall(SYMBOL, sp, sq, Contract(k, prem, prem + 10, g, 1), cq) :
        sp \in stockPrices, sq \in stockQuantities, k \in strikes,
        prem \in premiums, g \in profiles, cq \in Quantities}

\* every IronCondor the constructor accepts over the given legs
IronCondorInputs(strikes, bids, asks, profiles) ==
    LET legs == [ps : strikes, pb : strikes, cs : strikes, cb : strikes]
        prices == [psb : bids, pba : asks, csb : bids, cba : asks]
        greeks == [ps : profiles, pb : profiles, cs : profiles, cb : profiles]
        build(l, pr, g, q) ==
            IronCondor(SYMBOL,
                       Contract(l.ps, pr.psb, pr.psb + 10, g.ps, -1),
                       Contract(l.pb, Max(pr.pba - 10, 0), pr.pba, g.pb, -1),
                       Contract(l.cs, pr.csb, pr.csb + 10, g.cs, 1),
                       Contract(l.cb, Max(pr.cba - 10, 0), pr.cba, g.cb, 1),
                       q)
    IN  {build(l, pr, g, q) : l \in {x \in legs : x.pb < x.ps /\ x.ps < x.cs /\ x.cs < x.cb},
                             pr \in prices, g \in greeks, q \in Quantities}

PayoffStrategies ==
    CoveredCallInputs(Strikes \cup DeepStrikes, StockPrices, StockQuantities,
                      CallPremiums, {FullGreeks(30)})
    \cup IronCondorInputs(Strikes, SellBids, BuyAsks, {FullGreeks(20)})

GreekStrategies ==
    CoveredCallInputs({1550}, {1500}, StockQuantities, {25}, GreekProfiles({30, 100}))
    \cup IronCondorInputs({1400, 1450, 1550, 1600}, {20}, {11}, GreekProfiles({10, 20}))

\* a covered call on a stock that trades above the analysis range
HighPricedStrategies ==
    CoveredCallInputs({55000}, {54000}, {100}, {250}, {FullGreeks(30)})

StrikesOf(s) ==
    IF s.strategy_type = COVERED_CALL THEN {s.call_strike}
    ELSE {s.put_buy_contract.strike, s.put_sell_contract.strike,
          s.call_sell_contract.strike, s.call_buy_contract.strike}

\* the prices a caller evaluates the payoff at: the strategy's strikes, the
\* breakeven prices it reports, and prices around and between the strikes
ProbePrices(s) ==
    StrikesOf(s)
    \cup {calculate_breakeven_points(s)[i].price :
             i \in 1..Len(calculate_breakeven_points(s))}
    \cup {0, 1425, 1475, 1525, 1575, 1700, 3500}

(***************************************************************************)
(* Operations on the strategy object.                                      *)
(***************************************************************************)
StrategyIdle ==
    /\ results = Idle /\ filtered = Idle /\ ranked = Idle /\ rankedRev = Idle
    /\ history = Idle /\ btSimple = Idle /\ btVector = Idle
    /\ chain = Idle /\ backtester = Idle /\ VECTORBT_AVAILABLE = Idle /\ ModulesIdle

OtherUnchanged == UNCHANGED <<results, filtered, ranked, rankedRev, history, btSimple, btVector, chain, backtester, VECTORBT_AVAILABLE, PY_VOLLIB_AVAILABLE, QUANTLIB_AVAILABLE, _analyzer, _filter_engine, tasks, heap>>

InitPayoff ==
    /\ strategy \in PayoffStrategies
    /\ pnl = NoCall /\ ret = NoCall
    /\ StrategyIdle

InitAnalyze ==
    /\ strategy \in PayoffStrategies \cup GreekStrategies \cup HighPricedStrategies
    /\ pnl = NoCall /\ ret = NoCall
    /\ StrategyIdle

Method(op, value) ==
    /\ ret' = Some([op |-> op, value |-> value])
    /\ UNCHANGED <<strategy, pnl>>
    /\ OtherUnchanged

ProfitLoss ==
    \E p \in ProbePrices(strategy) :
        /\ pnl' = Some([price |-> p, value |-> calculate_profit_loss(strategy, p)])
        /\ UNCHANGED <<strategy, ret>>
        /\ OtherUnchanged

EntryCost == Method("entry_cost", calculate_entry_cost(strategy))
MaxProfit == Method("max_profit", calculate_max_profit(strategy))
MaxLoss == Method("max_loss", calculate_max_loss(strategy))
BreakevenPoints == Method("breakeven_points", calculate_breakeven_points(strategy))
Greeks == Method("greeks", calculate_greeks(strategy))
RiskRewardRatio == Method("risk_reward_ratio", calculate_risk_reward_ratio(strategy))
ProbabilityOfProfit == Method("probability_of_profit", calculate_probability_of_profit(strategy))
Analyze == Method("analyze", analyze(strategy))

\* the payoff methods of a strategy
NextPayoff ==
    \/ ProfitLoss
    \/ EntryCost
    \/ MaxProfit
    \/ MaxLoss
    \/ BreakevenPoints

\* the Greeks, the derived ratios and the composed analysis
NextAnalyze ==
    \/ Greeks
    \/ RiskRewardRatio
    \/ ProbabilityOfProfit
    \/ Analyze

Spec == InitPayoff /\ [][NextPayoff]_vars
SpecAnalyze == InitAnalyze /\ [][NextAnalyze]_vars

(***************************************************************************)
(* generate_profit_profile called on its own (specification SpecProfile).  *)
(***************************************************************************)
\* strategies with a debit, a credit and a zero entry cost
ProfileStrategies ==
    CoveredCallInputs({1550}, {1500}, {100}, {25}, {FullGreeks(30)})
    \cup IronCondorInputs({1400, 1450, 1550, 1600}, {11, 30}, {11}, {FullGreeks(20)})

ProfileMinPrices == {0, 1400, 1437}
ProfileMaxPrices == {1437, 1500, 1600, 1700}
NumPoints == {1, 2, 3, 7}

InitProfile ==
    /\ strategy \in ProfileStrategies
    /\ pnl = NoCall /\ ret = NoCall
    /\ StrategyIdle

GenerateProfitProfile ==
    /\ ret = NoCall
    /\ \E min_price \in ProfileMinPrices, max_price \in ProfileMaxPrices, num_points \in NumPoints :
           /\ min_price <= max_price
           /\ ret' = Some([op |-> "generate_profit_profile",
                           args |-> [min_price |-> min_price, max_price |-> max_price,
                                     num_points |-> num_points],
                           value |-> generate_profit_profile(strategy, min_price, max_price, num_points)])
    /\ UNCHANGED <<strategy, pnl>>
    /\ OtherUnchanged

NextProfile == GenerateProfitProfile

SpecProfile == InitProfile /\ [][NextProfile]_vars

(***************************************************************************)
(* FilterEngine (src/src/analyzer/filter.py).  A StrategyResult here       *)
(* carries the fields filter and rank read; a FilterCriteria is a record   *)
(* of Optional thresholds.                                                 *)
(***************************************************************************)
\* str.upper() on the symbols in use
Upper(s) ==
    CASE s = "aapl" -> "AAPL"
      [] s = "msft" -> "MSFT"
      [] OTHER -> s

NoCriteria ==
    [min_profit |-> None, min_risk_reward |-> None, min_probability |-> None,
     max_loss |-> None, min_premium_collected |-> None, max_breakeven_range |-> None,
     symbol |-> None, strategy_type |-> None]

RECURSIVE SeqMax(_)
SeqMax(s) == IF Len(s) = 1 THEN s[1] ELSE Max(Head(s), SeqMax(Tail(s)))
RECURSIVE SeqMin(_)
SeqMin(s) == IF Len(s) = 1 THEN s[1] ELSE Min(Head(s), SeqMin(Tail(s)))

_calculate_breakeven_range(result) ==
    IF Len(result.breakeven_points) < 2 THEN 0
    ELSE LET prices == [i \in 1..Len(result.breakeven_points) |->
                            result.breakeven_points[i].price]
         IN  SeqMax(prices) - SeqMin(prices)

\* "if criteria.symbol:" -- None and "" both skip the stage
FilterBySymbol(list, criteria) ==
    IF criteria.symbol = None \/ criteria.symbol = Some("") THEN list
    ELSE LET keep(r) == Upper(r.symbol) = Upper(TheVal(criteria.symbol))
         IN  SelectSeq(list, keep)

FilterByStrategyType(list, criteria) ==
    IF criteria.strategy_type = None THEN list
    ELSE LET keep(r) == r.strategy_type = TheVal(criteria.strategy_type)
         IN  SelectSeq(list, keep)

RECURSIVE TakeWhileMinProfit(_, _)
\* mutant: the scan stops at the first result below min_profit
TakeWhileMinProfit(list, criteria) ==
    IF criteria.min_profit = None \/ list = <<>> THEN list
    ELSE IF Head(list).max_profit >= TheVal(criteria.min_profit)
    THEN <<Head(list)>> \o TakeWhileMinProfit(Tail(list), criteria)
    ELSE <<>>

FilterByMinProfit(list, criteria) ==
    IF criteria.min_profit = None THEN list
    ELSE LET keep(r) == r.max_profit >= TheVal(criteria.min_profit)
         IN  SelectSeq(list, keep)

FilterByMinRiskReward(list, criteria) ==
    IF criteria.min_risk_reward = None THEN list
    ELSE LET keep(r) == /\ r.risk_reward_ratio # None
                        /\ TheVal(r.risk_reward_ratio) >= TheVal(criteria.min_risk_reward)
         IN  SelectSeq(list, keep)

FilterByMinProbability(list, criteria) ==
    IF criteria.min_probability = None THEN list
    ELSE LET keep(r) == /\ r.probability_of_profit # None
                        /\ TheVal(r.probability_of_profit) >= TheVal(criteria.min_probability)
         IN  SelectSeq(list, keep)

FilterByMaxLoss(list, criteria) ==
    IF criteria.max_loss = None THEN list
    ELSE LET keep(r) == r.max_loss <= TheVal(criteria.max_loss)
         IN  SelectSeq(list, keep)

\* mutant: debit results pass on the size of their entry cost
Mutant_FilterByMinPremiumCollected_any_sign(list, criteria) ==
    IF criteria.min_premium_collected = None THEN list
    ELSE LET keep(r) == Abs(r.entry_cost) >= TheVal(criteria.min_premium_collected)
         IN  SelectSeq(list, keep)

FilterByMinPremiumCollected(list, criteria) ==
    IF criteria.min_premium_collected = None THEN list
    ELSE LET keep(r) == /\ r.entry_cost < 0
                        /\ Abs(r.entry_cost) >= TheVal(criteria.min_premium_collected)
         IN  SelectSeq(list, keep)

FilterByMaxBreakevenRange(list, criteria) ==
    IF criteria.max_breakeven_range = None THEN list
    ELSE LET keep(r) == _calculate_breakeven_range(r) <= TheVal(criteria.max_breakeven_range)
         IN  SelectSeq(list, keep)

\* FilterEngine.filter: the stages in the order of the code
filter(results_, criteria) ==
    LET f1 == FilterBySymbol(results_, criteria)
        f2 == FilterByStrategyType(f1, criteria)
        f3 == FilterByMinProfit(f2, criteria)
        f4 == FilterByMinRiskReward(f3, criteria)
        f5 == FilterByMinProbability(f4, criteria)
        f6 == FilterByMaxLoss(f5, criteria)
        f7 == FilterByMinPremiumCollected(f6, criteria)
    IN  FilterByMaxBreakevenRange(f7, criteria)

\* mutant: debit results collect the premium term too
Mutant_default_scoring_premium_any_sign(result) ==
    3 * Min(result.max_profit, 1000000)
    + (IF result.risk_reward_ratio # None
       THEN 30 * Min(TheVal(result.risk_reward_ratio), 100000) ELSE 0)
    + (IF result.probability_of_profit # None
       THEN 200 * TheVal(result.probability_of_profit) ELSE 0)
    + 4 * Min(Abs(result.entry_cost), 500000)

\* score in units of 10^-7
_default_scoring_function(result) ==
    LET profit_score == 3 * Min(result.max_profit, 1000000)
        rr_score == IF result.risk_reward_ratio # None
                    THEN 30 * Min(TheVal(result.risk_reward_ratio), 100000) ELSE 0
        prob_score == IF result.probability_of_profit # None
                      THEN 200 * TheVal(result.probability_of_profit) ELSE 0
        premium_score == IF result.entry_cost < 0
                         THEN 4 * Min(Abs(result.entry_cost), 500000) ELSE 0
    IN  profit_score + rr_score + prob_score + premium_score

\* the metrics dict: an absent key is None
_calculate_ranking_metrics(result) ==
    [max_profit |-> result.max_profit,
     max_loss |-> result.max_loss,
     entry_cost |-> result.entry_cost,
     risk_reward_ratio |-> result.risk_reward_ratio,
     probability_of_profit |-> result.probability_of_profit,
     delta |-> {g.delta : g \in result.greeks},
     theta |-> {g.theta : g \in result.greeks},
     vega |-> {g.vega : g \in result.greeks},
     breakeven_range |-> _calculate_breakeven_range(result)]

StrategyRanking(result) ==
    [result |-> result,
     score |-> _default_scoring_function(result),
     ranking_metrics |-> _calculate_ranking_metrics(result)]

RECURSIVE InsertBeforeEqual(_, _)
\* mutant: an entry goes in front of the entries with an equal score
InsertBeforeEqual(sorted, x) ==
    IF sorted = <<>> THEN <<x>>
    ELSE IF Head(sorted).score > x.score
    THEN <<Head(sorted)>> \o InsertBeforeEqual(Tail(sorted), x)
    ELSE <<x>> \o sorted

RECURSIVE InsertByScore(_, _)
\* an entry goes behind every entry with a score >= its own
InsertByScore(sorted, x) ==
    IF sorted = <<>> THEN <<x>>
    ELSE IF Head(sorted).score >= x.score
    THEN <<Head(sorted)>> \o InsertByScore(Tail(sorted), x)
    ELSE <<x>> \o sorted

RECURSIVE SortByScoreDesc(_)
\* list.sort(key=score, reverse=True): stable, descending
SortByScoreDesc(rankings) ==
    IF rankings = <<>> THEN <<>>
    ELSE InsertByScore(SortByScoreDesc(SubSeq(rankings, 1, Len(rankings) - 1)),
                       rankings[Len(rankings)])

\* mutant: the rankings are returned without the sort
Mutant_rank_unsorted(results_) ==
    [i \in 1..Len(results_) |-> StrategyRanking(results_[i])]

\* FilterEngine.rank with the default scoring function (which never raises)
rank(results_) ==
    SortByScoreDesc([i \in 1..Len(results_) |-> StrategyRanking(results_[i])])

Reverse(s) == [i \in 1..Len(s) |-> s[Len(s) + 1 - i]]

(***************************************************************************)
(* Inputs of filter and rank.                                              *)
(***************************************************************************)
Result(strategy_type, symbol, entry_cost, max_profit, max_loss, breakevens, greeks, prob, rr) ==
    [strategy_type |-> strategy_type, symbol |-> symbol, entry_cost |-> entry_cost,
     max_profit |-> max_profit, max_loss |-> max_loss, breakeven_points |-> breakevens,
     greeks |-> greeks, probability_of_profit |-> prob, risk_reward_ratio |-> rr]

Breakevens(lower, upper) ==
    << [price |-> lower, direction |-> "below"], [price |-> upper, direction |-> "above"] >>

\* two iron condors with the same amounts on different strikes (equal scores),
\* a larger iron condor, and two covered calls
ResultPool ==
    { Result(IRON_CONDOR, "AAPL", -18000, 18000, 82000, Breakevens(14320, 15680),
             Some([delta |-> 0, gamma |-> -2, theta |-> 6, vega |-> -12]), None, Some(2195)),
      Result(IRON_CONDOR, "aapl", -18000, 18000, 82000, Breakevens(13320, 16680),
             Some([delta |-> 0, gamma |-> -2, theta |-> 6, vega |-> -12]), None, Some(2195)),
      Result(IRON_CONDOR, "MSFT", -50000, 50000, 50000, Breakevens(29500, 31500),
             None, None, Some(10000)),
      Result(COVERED_CALL, "AAPL", 1475000, 75000, 1475000,
             << [price |-> 14750, direction |-> "below"] >>,
             Some([delta |-> 7000, gamma |-> -200, theta |-> 500, vega |-> -1500]),
             Some(10000), Some(508)),
      Result(COVERED_CALL, "MSFT", 2990000, 10000, 2990000,
             << [price |-> 29900, direction |-> "below"] >>,
             None, None, Some(33)) }

RECURSIVE SeqsUpTo(_, _)
SeqsUpTo(S, n) ==
    IF n = 0 THEN {<<>>}
    ELSE LET shorter == SeqsUpTo(S, n - 1)
         IN  shorter \cup {Append(s, x) : s \in shorter, x \in S}

\* criteria objects with exactly one threshold set
SingleCriteria ==
    {[NoCriteria EXCEPT !.symbol = Some(x)] : x \in {"aapl", ""}}
    \cup {[NoCriteria EXCEPT !.strategy_type = Some(IRON_CONDOR)]}
    \cup {[NoCriteria EXCEPT !.min_profit = Some(x)] : x \in {18000, 40000}}
    \cup {[NoCriteria EXCEPT !.min_risk_reward = Some(2195)]}
    \cup {[NoCriteria EXCEPT !.min_probability = Some(5000)]}
    \cup {[NoCriteria EXCEPT !.max_loss = Some(82000)]}
    \cup {[NoCriteria EXCEPT !.min_premium_collected = Some(20000)]}
    \cup {[NoCriteria EXCEPT !.max_breakeven_range = Some(2000)]}

CriteriaFields == DOMAIN NoCriteria

SetFields(c) == {f \in CriteriaFields : c[f] # None}

\* the criteria object holding the thresholds of both a and b (on different fields)
Merge(a, b) == [f \in CriteriaFields |-> IF a[f] # None THEN a[f] ELSE b[f]]

Criteria ==
    SingleCriteria
    \cup {Merge(p[1], p[2]) :
             p \in {q \in SingleCriteria \X SingleCriteria :
                        SetFields(q[1]) \cap SetFields(q[2]) = {}}}

(***************************************************************************)
(* Operations of the filter engine on the caller's list.                   *)
(***************************************************************************)
RankIdle ==
    /\ strategy = Idle /\ pnl = Idle /\ ret = Idle
    /\ history = Idle /\ btSimple = Idle /\ btVector = Idle
    /\ chain = Idle /\ backtester = Idle /\ VECTORBT_AVAILABLE = Idle /\ ModulesIdle

RankOthersUnchanged == UNCHANGED <<strategy, pnl, ret, history, btSimple, btVector, chain, backtester, VECTORBT_AVAILABLE, PY_VOLLIB_AVAILABLE, QUANTLIB_AVAILABLE, _analyzer, _filter_engine, tasks, heap>>

InitRank ==
    /\ results \in SeqsUpTo(ResultPool, MaxResults)
    /\ filtered = NoCall /\ ranked = NoCall /\ rankedRev = NoCall
    /\ RankIdle

\* filter(results, criteria): the caller's first filter call
Filter ==
    \E c \in Criteria :
        /\ filtered = NoCall
        /\ filtered' = Some([applied |-> <<c>>, out |-> filter(results, c)])
        /\ UNCHANGED <<results, ranked, rankedRev>>
        /\ RankOthersUnchanged

\* filter(previous output, criteria): a second filter composed on the first
FilterAgain ==
    \E c \in SingleCriteria, f \in filtered :
        /\ Len(f.applied) = 1
        /\ f.applied[1] \in SingleCriteria
        /\ filtered' = Some([applied |-> Append(f.applied, c), out |-> filter(f.out, c)])
        /\ UNCHANGED <<results, ranked, rankedRev>>
        /\ RankOthersUnchanged

\* rank(results)
Rank ==
    /\ ranked' = Some(rank(results))
    /\ UNCHANGED <<results, filtered, rankedRev>>
    /\ RankOthersUnchanged

\* rank(list(reversed(results)))
RankReversed ==
    /\ rankedRev' = Some(rank(Reverse(results)))
    /\ UNCHANGED <<results, filtered, ranked>>
    /\ RankOthersUnchanged

NextRank ==
    \/ Filter
    \/ FilterAgain
    \/ Rank
    \/ RankReversed

SpecRank == InitRank /\ [][NextRank]_vars

(***************************************************************************)
(* The default scoring function called on one result (specification       *)
(* SpecScore): amounts below, at and above each normalisation cap.         *)
(***************************************************************************)
ScoreMaxProfits == {-5000, 50000, 1000000, 2000000}
ScoreRiskRewards == {None, Some(0), Some(2195), Some(100000), Some(250000)}
ScoreProbabilities == {None, Some(0), Some(6000), Some(10000)}
ScoreEntryCosts == {-600000, -500000, -18000, 0, 1475000}

ScoreResults ==
    {Result(IRON_CONDOR, SYMBOL, ec, mp, 82000, Breakevens(14320, 15680), None, prob, rr) :
        ec \in ScoreEntryCosts, mp \in ScoreMaxProfits,
        prob \in ScoreProbabilities, rr \in ScoreRiskRewards}

ScoreOthersUnchanged == UNCHANGED <<strategy, pnl, results, filtered, ranked, rankedRev, history, btSimple, btVector, chain, backtester, VECTORBT_AVAILABLE, PY_VOLLIB_AVAILABLE, QUANTLIB_AVAILABLE, _analyzer, _filter_engine, tasks, heap>>

InitScore ==
    /\ \E r \in ScoreResults : results = <<r>>
    /\ ret = NoCall
    /\ strategy = Idle /\ pnl = Idle /\ filtered = Idle /\ ranked = Idle /\ rankedRev = Idle
    /\ history = Idle /\ btSimple = Idle /\ btVector = Idle
    /\ chain = Idle /\ backtester = Idle /\ VECTORBT_AVAILABLE = Idle /\ ModulesIdle

DefaultScore ==
    /\ ret = NoCall
    /\ ret' = Some([op |-> "_default_scoring_function",
                    value |-> _default_scoring_function(results[1])])
    /\ ScoreOthersUnchanged

NextScore == DefaultScore

SpecScore == InitScore /\ [][NextScore]_vars

(***************************************************************************)
(* Backtesting (src/src/backtesting/backtester.py, vectorbt_engine.py).    *)
(* A historical series is a sequence of rows [timestamp, underlying_price].*)
(***************************************************************************)
RECURSIVE SeqSum(_)
SeqSum(s) == IF s = <<>> THEN 0 ELSE Head(s) + SeqSum(Tail(s))

CountPositive(s) == Cardinality({i \in 1..Len(s) : s[i] > 0})

\* min over i of (equity[i] - running_max[i]) / running_max[i], times 100
MaxDrawdown(equity) ==
    LET running_max(i) == SeqMax(SubSeq(equity, 1, i))
        less(i, j) == (equity[i] - running_max(i)) * running_max(j)
                      < (equity[j] - running_max(j)) * running_max(i)
        worst == CHOOSE i \in 1..Len(equity) : \A j \in 1..Len(equity) : ~less(j, i)
    IN  Frac((equity[worst] - running_max(worst)) * 100, running_max(worst))

\* mutant: the capital accumulates the P&L of the earlier rows
Mutant_backtest_simple_cumulative(s, historical_data, start_date, end_date, initial_capital) ==
    LET valid(row) == ~(row.underlying_price <= 0)
        rows == SelectSeq(historical_data, valid)
        pnls == [i \in 1..Len(rows) |-> calculate_profit_loss(s, rows[i].underlying_price)]
        trades == [i \in 1..Len(rows) |->
                      [timestamp |-> rows[i].timestamp,
                       underlying_price |-> rows[i].underlying_price,
                       pnl |-> pnls[i],
                       capital |-> initial_capital + SeqSum(SubSeq(pnls, 1, i))]]
        equity == <<initial_capital>> \o [i \in 1..Len(trades) |-> trades[i].capital]
        profitable == CountPositive(pnls)
    IN  [strategy_type |-> s.strategy_type,
         symbol |-> s.symbol,
         start_date |-> start_date,
         end_date |-> end_date,
         total_return |-> Frac((equity[Len(equity)] - initial_capital) * 100, initial_capital),
         sharpe_ratio |-> None,
         max_drawdown |-> Some(MaxDrawdown(equity)),
         win_rate |-> IF trades # <<>> THEN Some(Frac(profitable * 100, Len(trades))) ELSE None,
         total_trades |-> Len(trades),
         profitable_trades |-> profitable,
         equity_curve |-> equity,
         trades |-> trades]

\* StrategyBacktester._backtest_simple: rows with underlying_price <= 0 are skipped
_backtest_simple(s, historical_data, start_date, end_date, initial_capital) ==
    LET valid(row) == ~(row.underlying_price <= 0)
        rows == SelectSeq(historical_data, valid)
        trades == [i \in 1..Len(rows) |->
                      LET pnl_ == calculate_profit_loss(s, rows[i].underlying_price)
                      IN  [timestamp |-> rows[i].timestamp,
                           underlying_price |-> rows[i].underlying_price,
                           pnl |-> pnl_,
                           capital |-> initial_capital + pnl_]]
        equity == <<initial_capital>> \o [i \in 1..Len(trades) |-> trades[i].capital]
        profitable == CountPositive([i \in 1..Len(trades) |-> trades[i].pnl])
    IN  [strategy_type |-> s.strategy_type,
         symbol |-> s.symbol,
         start_date |-> start_date,
         end_date |-> end_date,
         total_return |-> Frac((equity[Len(equity)] - initial_capital) * 100, initial_capital),
         sharpe_ratio |-> None,
         max_drawdown |-> Some(MaxDrawdown(equity)),
         win_rate |-> IF trades # <<>> THEN Some(Frac(profitable * 100, Len(trades))) ELSE None,
         total_trades |-> Len(trades),
         profitable_trades |-> profitable,
         equity_curve |-> equity,
         trades |-> trades]

\* VectorBTEngine.run_backtest: every row is evaluated and the equity is the
\* running sum of the P&L.  total_return, sharpe_ratio and max_drawdown are what
\* the vectorbt library derives from the return series pnl / initial_capital; the
\* model keeps that series in their place.
run_backtest(s, data, start_date, end_date, initial_capital) ==
    LET pnl_series == [i \in 1..Len(data) |-> calculate_profit_loss(s, data[i].underlying_price)]
        equity == [i \in 1..Len(data) |-> initial_capital + SeqSum(SubSeq(pnl_series, 1, i))]
        returns == [i \in 1..Len(data) |-> Frac(pnl_series[i], initial_capital)]
        profitable_periods == CountPositive(pnl_series)
        total_periods == Len(pnl_series)
        trades == [i \in 1..Len(data) |->
                      [timestamp |-> data[i].timestamp,
                       underlying_price |-> data[i].underlying_price,
                       pnl |-> pnl_series[i],
                       equity |-> equity[i]]]
    IN  [strategy_type |-> s.strategy_type,
         symbol |-> s.symbol,
         start_date |-> start_date,
         end_date |-> end_date,
         total_return |-> [portfolio_from_returns |-> returns],
         sharpe_ratio |-> [portfolio_from_returns |-> returns],
         max_drawdown |-> [portfolio_from_returns |-> returns],
         win_rate |-> IF total_periods > 0
                      THEN Some(Frac(profitable_periods * 100, total_periods)) ELSE None,
         total_trades |-> total_periods,
         profitable_trades |-> profitable_periods,
         equity_curve |-> equity,
         trades |-> trades]

(***************************************************************************)
(* Inputs and operations of the backtester.                                *)
(***************************************************************************)
InitialCapitals == {10000}

HistoryPrices == {0, 1250, 1400, 1475, 1600}

BacktestStrategies ==
    { CoveredCall(SYMBOL, 1500, 10, Contract(1550, 25, 35, FullGreeks(30), 1), 1),
      CoveredCall(SYMBOL, 1500, 100, Contract(1000, 25, 35, FullGreeks(30), 1), 1),
      IronCondor(SYMBOL, Contract(1450, 20, 30, FullGreeks(20), -1),
                 Contract(1400, 1, 11, FullGreeks(10), -1),
                 Contract(1550, 20, 30, FullGreeks(20), 1),
                 Contract(1600, 1, 11, FullGreeks(10), 1), 1) }

\* series of 1 .. MaxHistory rows on consecutive days
Histories ==
    {[i \in 1..Len(ps) |-> [timestamp |-> i, underlying_price |-> ps[i]]] :
        ps \in SeqsUpTo(HistoryPrices, MaxHistory) \ {<<>>}}

BacktestIdle ==
    /\ pnl = Idle /\ ret = Idle
    /\ results = Idle /\ filtered = Idle /\ ranked = Idle /\ rankedRev = Idle
    /\ chain = Idle /\ backtester = Idle /\ VECTORBT_AVAILABLE = Idle /\ ModulesIdle

BacktestOthersUnchanged == UNCHANGED <<strategy, pnl, ret, results, filtered, ranked, rankedRev, history, chain, backtester, VECTORBT_AVAILABLE, PY_VOLLIB_AVAILABLE, QUANTLIB_AVAILABLE, _analyzer, _filter_engine, tasks, heap>>

InitBacktest ==
    /\ strategy \in BacktestStrategies
    /\ history \in Histories
    /\ btSimple = NoCall /\ btVector = NoCall
    /\ BacktestIdle

\* the row-by-row path over the whole series
BacktestSimple ==
    /\ \E capital \in InitialCapitals : btSimple' = Some(_backtest_simple(strategy, history, history[1].timestamp,
                                         history[Len(history)].timestamp, capital))
    /\ UNCHANGED btVector
    /\ BacktestOthersUnchanged

\* the vectorized path over the whole series
BacktestVector ==
    /\ \E capital \in InitialCapitals : btVector' = Some(run_backtest(strategy, history, history[1].timestamp,
                                     history[Len(history)].timestamp, capital))
    /\ UNCHANGED btSimple
    /\ BacktestOthersUnchanged

NextBacktest ==
    \/ BacktestSimple
    \/ BacktestVector

SpecBacktest == InitBacktest /\ [][NextBacktest]_vars

(***************************************************************************)
(* StrategyBacktester: construction, backtest_strategy, compare_strategies *)
(* (src/src/backtesting/backtester.py).  A backtester object is            *)
(* [use_vectorbt, engine]; engine is None or the VectorBTEngine instance.  *)
(***************************************************************************)
\* "x is None" for an attribute that holds a number otherwise
IsNone(x) == ToString(x) = ToString(None)

\* VectorBTEngine(): ImportError unless the vectorbt library could be imported
VectorBTEngine_init(available) ==
    IF ~available THEN Raise("ImportError") ELSE Return("VectorBTEngine")

\* mutant: the requested flag is kept when the engine cannot be built
Mutant_StrategyBacktester_init_keeps_flag(use_vectorbt, available) ==
    [use_vectorbt |-> use_vectorbt,
     engine |-> IF use_vectorbt THEN VectorBTEngine_init(available).value ELSE None]

\* StrategyBacktester.__init__
StrategyBacktester_init(use_vectorbt, available) ==
    IF ~use_vectorbt THEN [use_vectorbt |-> FALSE, engine |-> None]
    ELSE LET built == VectorBTEngine_init(available)
         IN  IF built.raised = None
             THEN [use_vectorbt |-> TRUE, engine |-> built.value]
             ELSE [use_vectorbt |-> FALSE, engine |-> None]

\* calculate_profit_loss raises TypeError on a covered call built with stock_price None
\* (underlying_price - self.stock_price); the constructor does not reject it
calculate_profit_loss_raises(s) == s.strategy_type = COVERED_CALL /\ IsNone(s.stock_price)

\* historical_data[historical_data['timestamp'] >= start_date], only when start_date is given
FromStart(historical_data, start_date) ==
    IF start_date = None THEN historical_data
    ELSE SelectSeq(historical_data, LAMBDA row : row.timestamp >= TheVal(start_date))

\* mutant: the end of the range is exclusive
Mutant_UntilEnd_exclusive(historical_data, end_date) ==
    IF end_date = None THEN historical_data
    ELSE SelectSeq(historical_data, LAMBDA row : row.timestamp < TheVal(end_date))

\* historical_data[historical_data['timestamp'] <= end_date], only when end_date is given
UntilEnd(historical_data, end_date) ==
    IF end_date = None THEN historical_data
    ELSE SelectSeq(historical_data, LAMBDA row : row.timestamp <= TheVal(end_date))

Timestamps(historical_data) == [i \in 1..Len(historical_data) |-> historical_data[i].timestamp]

\* the row-by-row path evaluates the strategy on the rows it does not skip
_backtest_simple_outcome(s, historical_data, start_date, end_date, initial_capital) ==
    IF calculate_profit_loss_raises(s) /\ \E i \in 1..Len(historical_data) : ~(historical_data[i].underlying_price <= 0)
    THEN Raise("TypeError")
    ELSE Return(_backtest_simple(s, historical_data, start_date, end_date, initial_capital))

\* StrategyBacktester._backtest_with_vectorbt: the engine evaluates the strategy on every row
_backtest_with_vectorbt(s, historical_data, start_date, end_date, initial_capital) ==
    IF calculate_profit_loss_raises(s) /\ historical_data # <<>>
    THEN Raise("TypeError")
    ELSE Return(run_backtest(s, historical_data, start_date, end_date, initial_capital))

\* StrategyBacktester.backtest_strategy
backtest_strategy(self, s, historical_data, start_date, end_date, initial_capital) ==
    IF historical_data = <<>> THEN Raise("ValueError")
    ELSE LET data == UntilEnd(FromStart(historical_data, start_date), end_date)
         IN  IF data = <<>> THEN Raise("ValueError")
             ELSE LET start == IF start_date # None THEN TheVal(start_date)
                               ELSE SeqMin(Timestamps(data))
                      end == IF end_date # None THEN TheVal(end_date)
                             ELSE SeqMax(Timestamps(data))
                  IN  IF self.use_vectorbt /\ self.engine # None
                      THEN _backtest_with_vectorbt(s, data, start, end, initial_capital)
                      ELSE _backtest_simple_outcome(s, data, start, end, initial_capital)

\* mutant: the loop ends at the first strategy whose backtest raises
RECURSIVE Mutant_compare_strategies_break(_, _, _, _, _, _)
Mutant_compare_strategies_break(self, strategies, historical_data, start_date, end_date, initial_capital) ==
    IF strategies = <<>> THEN Return(<<>>)
    ELSE LET result == backtest_strategy(self, Head(strategies), historical_data, start_date, end_date, initial_capital)
         IN  IF result.raised # None THEN Return(<<>>)
             ELSE Return(<<TheVal(result.value)>> \o TheVal(Mutant_compare_strategies_break(self, Tail(strategies), historical_data, start_date, end_date, initial_capital).value))

\* StrategyBacktester.compare_strategies: "except Exception: ... continue"
RECURSIVE compare_strategies(_, _, _, _, _, _)
compare_strategies(self, strategies, historical_data, start_date, end_date, initial_capital) ==
    IF strategies = <<>> THEN Return(<<>>)
    ELSE LET result == backtest_strategy(self, Head(strategies), historical_data, start_date, end_date, initial_capital)
             rest == TheVal(compare_strategies(self, Tail(strategies), historical_data, start_date, end_date, initial_capital).value)
         IN  IF result.raised # None THEN Return(rest)
             ELSE Return(<<TheVal(result.value)>> \o rest)

(***************************************************************************)
(* Inputs and operations of the StrategyBacktester object.                 *)
(***************************************************************************)
\* a covered call, an iron condor, and a covered call built with stock_price None
StrategyAt(i) ==
    CASE i = 1 -> CoveredCall(SYMBOL, 1500, 100, Contract(1550, 25, 35, FullGreeks(30), 1), 1)
      [] i = 2 -> IronCondor(SYMBOL, Contract(1450, 20, 30, FullGreeks(20), -1),
                             Contract(1400, 1, 11, FullGreeks(10), -1),
                             Contract(1550, 20, 30, FullGreeks(20), 1),
                             Contract(1600, 1, 11, FullGreeks(10), 1), 1)
      [] OTHER -> CoveredCall(SYMBOL, None, 100, Contract(1600, 25, 35, FullGreeks(30), 1), 1)

StrategyIds == {1, 2, 3}

\* lists of up to MaxStrategies strategies, by their numbers
StrategyIdLists == SeqsUpTo(StrategyIds, MaxStrategies)
StrategyList(ids) == [i \in 1..Len(ids) |-> StrategyAt(ids[i])]

\* rows need not be in time order; a timestamp may repeat
RowTimestamps == {1, 2, 3}
RowPrices == {0, 1475}

TimedHistories ==
    SeqsUpTo([timestamp : RowTimestamps, underlying_price : RowPrices], MaxHistory)

Dates == {None, Some(2), Some(3)}

BacktesterIdle ==
    /\ strategy = Idle /\ pnl = Idle
    /\ results = Idle /\ filtered = Idle /\ ranked = Idle /\ rankedRev = Idle
    /\ btSimple = Idle /\ btVector = Idle /\ chain = Idle /\ ModulesIdle

BacktesterOthersUnchanged == UNCHANGED <<strategy, pnl, results, filtered, ranked, rankedRev, history, btSimple, btVector, chain, backtester, VECTORBT_AVAILABLE, PY_VOLLIB_AVAILABLE, QUANTLIB_AVAILABLE, _analyzer, _filter_engine, tasks, heap>>

\* the state after StrategyBacktester(use_vectorbt): the constructor's argument is
\* kept next to the object it built
InitBacktester ==
    /\ VECTORBT_AVAILABLE \in BOOLEAN
    /\ \E use_vectorbt \in BOOLEAN :
           backtester = [args |-> [use_vectorbt |-> use_vectorbt],
                         self |-> StrategyBacktester_init(use_vectorbt, VECTORBT_AVAILABLE)]
    /\ history \in TimedHistories
    /\ ret = NoCall
    /\ BacktesterIdle

BacktestStrategy ==
    /\ ret = NoCall
    /\ \E i \in StrategyIds, start_date \in Dates, end_date \in Dates, initial_capital \in InitialCapitals :
           ret' = Some([op |-> "backtest_strategy",
                        args |-> [strategy |-> StrategyAt(i), start_date |-> start_date,
                                  end_date |-> end_date, initial_capital |-> initial_capital],
                        value |-> backtest_strategy(backtester.self, StrategyAt(i), history, start_date, end_date, initial_capital)])
    /\ BacktesterOthersUnchanged

CompareStrategies ==
    /\ ret = NoCall
    /\ \E ids \in StrategyIdLists, start_date \in Dates, end_date \in Dates, initial_capital \in InitialCapitals :
           ret' = Some([op |-> "compare_strategies",
                        args |-> [strategies |-> StrategyList(ids), start_date |-> start_date,
                                  end_date |-> end_date, initial_capital |-> initial_capital],
                        value |-> compare_strategies(backtester.self, StrategyList(ids), history, start_date, end_date, initial_capital)])
    /\ BacktesterOthersUnchanged

NextBacktester ==
    \/ BacktestStrategy
    \/ CompareStrategies

SpecBacktester == InitBacktester /\ [][NextBacktester]_vars

(***************************************************************************)
(* StrategyAnalyzer (src/src/analyzer/analyzer.py).  A chain is a record   *)
(* [symbol, underlying_price, contracts]; the analysis methods return a    *)
(* list of StrategyResult and catch what the strategies raise.             *)
(***************************************************************************)
OptionContract(symbol, strike, expiration, option_type, bid, ask, g) ==
    [symbol |-> symbol, strike |-> strike, expiration |-> expiration,
     option_type |-> option_type, bid |-> bid, ask |-> ask,
     delta |-> g.delta, gamma |-> g.gamma, theta |-> g.theta, vega |-> g.vega]

OptionsChain(symbol, underlying_price, contracts) ==
    [symbol |-> symbol, underlying_price |-> underlying_price, contracts |-> contracts]

CoveredCallParams(symbol, quantity, stock_quantity, call_strike, call_expiration, stock_price) ==
    [symbol |-> symbol, strategy_type |-> COVERED_CALL, quantity |-> quantity,
     stock_quantity |-> stock_quantity, call_strike |-> call_strike,
     call_expiration |-> call_expiration, stock_price |-> stock_price]

IronCondorParams(symbol, put_sell_strike, put_buy_strike, call_sell_strike, call_buy_strike, expiration, quantity) ==
    [symbol |-> symbol, strategy_type |-> IRON_CONDOR,
     put_sell_strike |-> put_sell_strike, put_buy_strike |-> put_buy_strike,
     call_sell_strike |-> call_sell_strike, call_buy_strike |-> call_buy_strike,
     expiration |-> expiration, quantity |-> quantity]

RECURSIVE Concat(_)
\* the lists appended by the iterations of a loop, in loop order
Concat(lists) == IF lists = <<>> THEN <<>> ELSE Head(lists) \o Concat(Tail(lists))

\* mutant: the first contract at the strike, of either type
Mutant_FindContract_any_type(contracts, option_type, strike) ==
    LET match(c) == c.strike = strike
        found == SelectSeq(contracts, match)
    IN  IF found = <<>> THEN None ELSE Some(Head(found))

\* next((c for c in contracts if type and strike match), None)
FindContract(contracts, option_type, strike) ==
    LET match(c) == c.option_type = option_type /\ c.strike = strike
        found == SelectSeq(contracts, match)
    IN  IF found = <<>> THEN None ELSE Some(Head(found))

analyze_covered_call(params, chain_) ==
    LET stock_price == Or(params.stock_price, Some(chain_.underlying_price))
        match(c) == c.option_type = CALL /\ c.expiration = params.call_expiration
        call_contracts == SelectSeq(chain_.contracts, match)
        one(call_contract) ==
            LET made == CoveredCall_from_params(params, call_contract, stock_price)
            IN  IF made.raised # None THEN <<>> ELSE <<analyze(TheVal(made.value))>>
    IN  IF stock_price = None \/ stock_price = Some(0) THEN <<>>
        ELSE IF call_contracts = <<>> THEN <<>>
        ELSE Concat([i \in 1..Len(call_contracts) |-> one(call_contracts[i])])

analyze_iron_condor(params, chain_) ==
    LET at(c) == c.expiration = params.expiration
        contracts == SelectSeq(chain_.contracts, at)
        put_sell == FindContract(contracts, PUT, params.put_sell_strike)
        put_buy == FindContract(contracts, PUT, params.put_buy_strike)
        call_sell == FindContract(contracts, CALL, params.call_sell_strike)
        call_buy == FindContract(contracts, CALL, params.call_buy_strike)
    IN  IF contracts = <<>> THEN <<>>
        ELSE IF put_sell = None \/ put_buy = None \/ call_sell = None \/ call_buy = None
        THEN <<>>
        ELSE LET made == IronCondor_from_params(params, TheVal(put_sell), TheVal(put_buy),
                                                TheVal(call_sell), TheVal(call_buy))
             IN  IF made.raised # None THEN <<>> ELSE <<analyze(TheVal(made.value))>>

\* mutant: the contract is put in front, so the list keeps no strike order
Mutant_InsertByStrike_front(sorted, c) == <<c>> \o sorted

RECURSIVE InsertByStrike(_, _)
InsertByStrike(sorted, c) ==
    IF sorted = <<>> THEN <<c>>
    ELSE IF Head(sorted).strike <= c.strike
    THEN <<Head(sorted)>> \o InsertByStrike(Tail(sorted), c)
    ELSE <<c>> \o sorted

RECURSIVE SortByStrike(_)
\* sorted(contracts, key=lambda x: x.strike): stable, ascending
SortByStrike(contracts) ==
    IF contracts = <<>> THEN <<>>
    ELSE InsertByStrike(SortByStrike(SubSeq(contracts, 1, Len(contracts) - 1)),
                        contracts[Len(contracts)])

analyze_iron_condor_variations(symbol, expiration, chain_, quantity, min_credit) ==
    LET at(c) == c.expiration = expiration
        contracts == SelectSeq(chain_.contracts, at)
        isPut(c) == c.option_type = PUT
        isCall(c) == c.option_type = CALL
        puts == SortByStrike(SelectSeq(contracts, isPut))
        calls == SortByStrike(SelectSeq(contracts, isCall))
        try(put_buy, put_sell, call_sell, call_buy) ==
            IF put_sell.strike >= call_sell.strike THEN <<>>
            ELSE LET params == IronCondorParams(symbol, put_sell.strike, put_buy.strike,
                                                call_sell.strike, call_buy.strike,
                                                expiration, quantity)
                     made == IronCondor_from_params(params, put_sell, put_buy,
                                                    call_sell, call_buy)
                 IN  IF made.raised # None THEN <<>>
                     ELSE IF calculate_entry_cost(TheVal(made.value)) > -min_credit THEN <<>>
                     ELSE <<analyze(TheVal(made.value))>>
        callLoop(i, j) ==
            Concat([k \in 1..(Len(calls) - 1) |->
                Concat([n \in 1..(Len(calls) - k) |->
                    try(puts[i], puts[j], calls[k], calls[k + n])])])
    IN  IF contracts = <<>> THEN <<>>
        ELSE IF Len(puts) < 2 \/ Len(calls) < 2 THEN <<>>
        ELSE Concat([i \in 1..(Len(puts) - 1) |->
                 Concat([m \in 1..(Len(puts) - i) |-> callLoop(i, i + m)])])

(***************************************************************************)
(* Inputs and operations of the analyzer.                                  *)
(***************************************************************************)
Expirations == {EXPIRATION, "20240216"}

\* contracts as a data feed lists them (not in strike order)
BaseContracts ==
    << OptionContract(SYMBOL, 1450, EXPIRATION, PUT, 20, 26, FullGreeks(-20)),
       OptionContract(SYMBOL, 1550, EXPIRATION, CALL, 5, 11, FullGreeks(10)),
       OptionContract(SYMBOL, 1400, EXPIRATION, PUT, 5, 11, FullGreeks(-10)),
       OptionContract(SYMBOL, 1500, "20240216", CALL, 30, 36, FullGreeks(30)),
       OptionContract(SYMBOL, 1450, EXPIRATION, CALL, 60, 66, FullGreeks(60)),
       OptionContract(SYMBOL, 1500, EXPIRATION, PUT, 50, 56, FullGreeks(-50)),
       OptionContract(SYMBOL, 1600, EXPIRATION, CALL, 1, 3, FullGreeks(5)),
       OptionContract(SYMBOL, 1500, EXPIRATION, CALL, 20, 26, FullGreeks(20)) >>

RECURSIVE SubSeqsOf(_)
\* every selection of the rows of s, in the order of s
SubSeqsOf(s) ==
    IF s = <<>> THEN {<<>>}
    ELSE LET rest == SubSeqsOf(Tail(s))
         IN  rest \cup {<<Head(s)>> \o r : r \in rest}

UnderlyingPrices == {0, 1500}

\* chains without two contracts of the same (strike, expiration, type)
Chains ==
    {OptionsChain(SYMBOL, u, cs) : u \in UnderlyingPrices, cs \in SubSeqsOf(BaseContracts)}

ParamStockPrices == {None, Some(0), Some(1480)}

CoveredCallParamsInputs ==
    {CoveredCallParams(SYMBOL, q, 100, 1500, e, sp) :
        q \in Quantities, e \in Expirations, sp \in ParamStockPrices}

\* strikes named by a caller: ordered, with a leg the chain may lack, and misordered
CondorStrikes ==
    { <<1450, 1400, 1500, 1550>>, <<1500, 1400, 1550, 1600>>,
      <<1450, 1400, 1500, 1650>>, <<1400, 1450, 1500, 1550>>,
      <<1500, 1450, 1450, 1500>> }

IronCondorParamsInputs ==
    {IronCondorParams(SYMBOL, k[1], k[2], k[3], k[4], e, q) :
        k \in CondorStrikes, e \in Expirations, q \in Quantities}

MinCredits == {0, 2600, 10000}

AnalyzerIdle ==
    /\ strategy = Idle /\ pnl = Idle
    /\ results = Idle /\ filtered = Idle /\ ranked = Idle /\ rankedRev = Idle
    /\ history = Idle /\ btSimple = Idle /\ btVector = Idle
    /\ backtester = Idle /\ VECTORBT_AVAILABLE = Idle /\ ModulesIdle

AnalyzerOthersUnchanged == UNCHANGED <<strategy, pnl, results, filtered, ranked, rankedRev, history, btSimple, btVector, chain, backtester, VECTORBT_AVAILABLE, PY_VOLLIB_AVAILABLE, QUANTLIB_AVAILABLE, _analyzer, _filter_engine, tasks, heap>>

\* each behaviour is one call on a chain: the methods keep no state between calls
InitAnalyzer ==
    /\ chain \in Chains
    /\ ret = NoCall
    /\ AnalyzerIdle

AnalyzeCoveredCall ==
    \E params \in CoveredCallParamsInputs :
        /\ ret = NoCall
        /\ ret' = Some([op |-> "analyze_covered_call", args |-> [params |-> params],
                        value |-> Return(analyze_covered_call(params, chain))])
        /\ AnalyzerOthersUnchanged

AnalyzeIronCondor ==
    \E params \in IronCondorParamsInputs :
        /\ ret = NoCall
        /\ ret' = Some([op |-> "analyze_iron_condor", args |-> [params |-> params],
                        value |-> Return(analyze_iron_condor(params, chain))])
        /\ AnalyzerOthersUnchanged

AnalyzeIronCondorVariations ==
    \E e \in Expirations, q \in Quantities, mc \in MinCredits :
        /\ ret = NoCall
        /\ ret' = Some([op |-> "analyze_iron_condor_variations",
                        args |-> [symbol |-> SYMBOL, expiration |-> e,
                                  quantity |-> q, min_credit |-> mc],
                        value |-> Return(analyze_iron_condor_variations(SYMBOL, e, chain, q, mc))])
        /\ AnalyzerOthersUnchanged

NextAnalyzer ==
    \/ AnalyzeCoveredCall
    \/ AnalyzeIronCondor
    \/ AnalyzeIronCondorVariations

SpecAnalyzer == InitAnalyzer /\ [][NextAnalyzer]_vars

(***************************************************************************)
(* Construction of an IronCondor by a caller, from any four legs.          *)
(***************************************************************************)
PutLegs == {Contract(k, 20, 30, FullGreeks(20), -1) : k \in Strikes}
CallLegs == {Contract(k, 20, 30, FullGreeks(20), 1) : k \in Strikes}

ConstructIdle ==
    /\ strategy = Idle /\ pnl = Idle
    /\ results = Idle /\ filtered = Idle /\ ranked = Idle /\ rankedRev = Idle
    /\ history = Idle /\ btSimple = Idle /\ btVector = Idle
    /\ chain = Idle /\ backtester = Idle /\ VECTORBT_AVAILABLE = Idle /\ ModulesIdle

ConstructOthersUnchanged == UNCHANGED <<strategy, pnl, results, filtered, ranked, rankedRev, history, btSimple, btVector, chain, backtester, VECTORBT_AVAILABLE, PY_VOLLIB_AVAILABLE, QUANTLIB_AVAILABLE, _analyzer, _filter_engine, tasks, heap>>

InitConstruct ==
    /\ ret = NoCall
    /\ ConstructIdle

\* IronCondor(symbol, put_sell, put_buy, call_sell, call_buy, quantity)
NewIronCondor ==
    \E ps \in PutLegs, pb \in PutLegs, cs \in CallLegs, cb \in CallLegs, q \in Quantities :
        /\ ret = NoCall
        /\ ret' = Some([op |-> "IronCondor",
                        args |-> [symbol |-> SYMBOL, put_sell_contract |-> ps,
                                  put_buy_contract |-> pb, call_sell_contract |-> cs,
                                  call_buy_contract |-> cb, quantity |-> q],
                        value |-> IronCondor_init(SYMBOL, ps, pb, cs, cb, q)])
        /\ ConstructOthersUnchanged

NextConstruct ==
    \/ NewIronCondor

SpecConstruct == InitConstruct /\ [][NextConstruct]_vars

(***************************************************************************)
(* Pricing utilities (src/src/utils/pricing.py).  py_vollib and QuantLib   *)
(* are outside the repository: what a library call does (the value it      *)
(* returns, or the exception it raises) is an input of the functions.      *)
(* Times are whole days, prices whole cents, volatilities and Greeks       *)
(* hundredths.  A Python result that may be None is an Optional.           *)
(***************************************************************************)
ZeroGreeks == [delta |-> 0, gamma |-> 0, theta |-> 0, vega |-> 0]

\* mutant: the price function lets the backend's exception through
Mutant_calculate_black_scholes_price_uncaught(time_to_expiration, use_quantlib, ql, vollib) ==
    IF time_to_expiration <= 0 THEN Return(Some(0))
    ELSE IF use_quantlib /\ QUANTLIB_AVAILABLE THEN
             (IF ql.raised # None THEN ql ELSE Return(ql.value))
    ELSE IF PY_VOLLIB_AVAILABLE THEN
             (IF vollib.raised # None THEN vollib ELSE Return(vollib.value))
    ELSE Return(None)

\* try: <library call> except Exception: return on_error
TryExcept(call, on_error) ==
    IF call.raised # None THEN Return(on_error) ELSE Return(call.value)

\* ql is the outcome of _quantlib_black_scholes, vollib that of py_vollib's black_scholes
calculate_black_scholes_price(time_to_expiration, use_quantlib, ql, vollib) ==
    IF time_to_expiration <= 0 THEN Return(Some(0))
    ELSE IF use_quantlib /\ QUANTLIB_AVAILABLE THEN TryExcept(ql, None)
    ELSE IF PY_VOLLIB_AVAILABLE THEN TryExcept(vollib, None)
    ELSE Return(None)

\* calculate_greeks of the pricing module; the dictionary is returned itself, never None: ql is the outcome of _quantlib_greeks,
\* vollib that of building the dictionary from py_vollib's delta, gamma, theta, vega
pricing_calculate_greeks(time_to_expiration, use_quantlib, ql, vollib) ==
    IF time_to_expiration <= 0 THEN Return(ZeroGreeks)
    ELSE IF use_quantlib /\ QUANTLIB_AVAILABLE THEN
             (IF ql.raised # None THEN Return(ZeroGreeks) ELSE Return(TheVal(ql.value)))
    ELSE IF PY_VOLLIB_AVAILABLE THEN
             (IF vollib.raised # None THEN Return(ZeroGreeks) ELSE Return(TheVal(vollib.value)))
    ELSE Return(ZeroGreeks)

\* ql is [setup, impliedVolatility]: the outcome of building the QuantLib option and
\* process, and that of the solver; a solver failure is caught here and gives None
_quantlib_implied_volatility(ql) ==
    IF ql.setup.raised # None THEN Raise(TheVal(ql.setup.raised))
    ELSE IF ql.impliedVolatility.raised # None THEN Return(None)
    ELSE Return(ql.impliedVolatility.value)

calculate_implied_volatility(time_to_expiration, use_quantlib, ql, vollib) ==
    IF time_to_expiration <= 0 THEN Return(None)
    ELSE IF use_quantlib /\ QUANTLIB_AVAILABLE THEN
             (LET call == _quantlib_implied_volatility(ql)
              IN  IF call.raised # None THEN Return(None) ELSE Return(TheVal(call.value)))
    ELSE IF PY_VOLLIB_AVAILABLE THEN TryExcept(vollib, None)
    ELSE Return(None)

(***************************************************************************)
(* Inputs and operations of the pricing functions (specification           *)
(* SpecPricing).                                                           *)
(***************************************************************************)
\* expired yesterday, expiring today, 30 days and one year to expiration
TimesToExpiration == {-1, 0, 30, 365}

LibraryErrors == {"RuntimeError"}

\* what a library call that computes a number can do
NumberOutcomes == {Return(v) : v \in {0, 250}} \cup {Raise(e) : e \in LibraryErrors}

\* what a library call that computes the four Greeks can do
GreeksOutcomes ==
    {Return([delta |-> 55, gamma |-> 3, theta |-> -2, vega |-> 12])} \cup {Raise(e) : e \in LibraryErrors}

SetupOutcomes == {Return(0)} \cup {Raise(e) : e \in LibraryErrors}

QuantLibSolverOutcomes == [setup : SetupOutcomes, impliedVolatility : NumberOutcomes]

PricingIdle ==
    /\ strategy = Idle /\ pnl = Idle
    /\ results = Idle /\ filtered = Idle /\ ranked = Idle /\ rankedRev = Idle
    /\ history = Idle /\ btSimple = Idle /\ btVector = Idle
    /\ chain = Idle /\ backtester = Idle /\ VECTORBT_AVAILABLE = Idle
    /\ _analyzer = Idle /\ _filter_engine = Idle /\ tasks = Idle /\ heap = Idle

PricingOthersUnchanged == UNCHANGED <<strategy, pnl, results, filtered, ranked, rankedRev, history, btSimple, btVector, chain, backtester, VECTORBT_AVAILABLE, PY_VOLLIB_AVAILABLE, QUANTLIB_AVAILABLE, _analyzer, _filter_engine, tasks, heap>>

\* the state after the module was imported: each library is there or not
InitPricing ==
    /\ PY_VOLLIB_AVAILABLE \in BOOLEAN
    /\ QUANTLIB_AVAILABLE \in BOOLEAN
    /\ ret = NoCall
    /\ PricingIdle

CalculateBlackScholesPrice ==
    /\ ret = NoCall
    /\ \E time_to_expiration \in TimesToExpiration, use_quantlib \in BOOLEAN, ql \in NumberOutcomes, vollib \in NumberOutcomes :
           ret' = Some([op |-> "calculate_black_scholes_price",
                        args |-> [time_to_expiration |-> time_to_expiration, use_quantlib |-> use_quantlib, ql |-> ql, vollib |-> vollib],
                        value |-> calculate_black_scholes_price(time_to_expiration, use_quantlib, ql, vollib)])
    /\ PricingOthersUnchanged

CalculateGreeks ==
    /\ ret = NoCall
    /\ \E time_to_expiration \in TimesToExpiration, use_quantlib \in BOOLEAN, ql \in GreeksOutcomes, vollib \in GreeksOutcomes :
           ret' = Some([op |-> "calculate_greeks",
                        args |-> [time_to_expiration |-> time_to_expiration, use_quantlib |-> use_quantlib, ql |-> ql, vollib |-> vollib],
                        value |-> pricing_calculate_greeks(time_to_expiration, use_quantlib, ql, vollib)])
    /\ PricingOthersUnchanged

CalculateImpliedVolatility ==
    /\ ret = NoCall
    /\ \E time_to_expiration \in TimesToExpiration, use_quantlib \in BOOLEAN, ql \in QuantLibSolverOutcomes, vollib \in NumberOutcomes :
           ret' = Some([op |-> "calculate_implied_volatility",
                        args |-> [time_to_expiration |-> time_to_expiration, use_quantlib |-> use_quantlib, ql |-> ql, vollib |-> vollib],
                        value |-> calculate_implied_volatility(time_to_expiration, use_quantlib, ql, vollib)])
    /\ PricingOthersUnchanged

NextPricing ==
    \/ CalculateBlackScholesPrice
    \/ CalculateGreeks
    \/ CalculateImpliedVolatility

SpecPricing == InitPricing /\ [][NextPricing]_vars

(***************************************************************************)
(* The shared engine instances (analyzer.py get_analyzer, filter.py        *)
(* get_filter_engine) used by concurrent callers.  An object is the set of *)
(* its attributes, <<name, value>> pairs; every statement of the accessor  *)
(* is a step of its own, and so is the method call made on the object.     *)
(***************************************************************************)
\* StrategyAnalyzer.__init__ and FilterEngine.__init__ are `pass`: no attribute is set
StrategyAnalyzer_init == {}
FilterEngine_init == {}

\* mutant: the engine keeps the last value it computed on the object and hands it out
Mutant_EngineCall_memoized(self, call, results_, chain_) ==
    LET computed == CASE call.op = "filter" -> filter(results_, call.args.criteria)
                      [] call.op = "rank" -> rank(results_)
                      [] call.op = "analyze_covered_call" -> analyze_covered_call(call.args.params, chain_)
                      [] call.op = "analyze_iron_condor" -> analyze_iron_condor(call.args.params, chain_)
    IN  IF self = {} THEN [value |-> computed, self |-> {<<"last", computed>>}]
        ELSE [value |-> (CHOOSE a \in self : TRUE)[2], self |-> self]

\* a method called on an engine object: the value returned and the object's attributes
\* afterwards.  The methods assign local names only (filtered, rankings, results).
EngineCall(self, call, results_, chain_) ==
    [value |-> CASE call.op = "filter" -> filter(results_, call.args.criteria)
                 [] call.op = "rank" -> rank(results_)
                 [] call.op = "analyze_covered_call" -> analyze_covered_call(call.args.params, chain_)
                 [] call.op = "analyze_iron_condor" -> analyze_iron_condor(call.args.params, chain_),
     self |-> self]

(***************************************************************************)
(* Inputs and operations of the concurrent callers (specification          *)
(* SpecConcurrent).                                                        *)
(***************************************************************************)
Tasks == 1..MaxTasks

\* the list every caller hands to filter and rank
SharedResults ==
    {s \in SeqsUpTo(ResultPool, 2) :
        /\ Len(s) = 2
        /\ s[1].symbol = "MSFT" /\ s[1].strategy_type = COVERED_CALL
        /\ s[2].symbol = "AAPL" /\ s[2].strategy_type = IRON_CONDOR}

\* the chain every caller hands to the analyzer: all the contracts
SharedChains == {c \in Chains : Len(c.contracts) = Len(BaseContracts) /\ c.underlying_price = 1500}

AnalyzerCalls ==
    {[op |-> "analyze_covered_call", args |-> [params |-> p]] :
        p \in {q \in CoveredCallParamsInputs : q.quantity = 1 /\ q.call_expiration # EXPIRATION /\ q.stock_price = None}}
    \cup {[op |-> "analyze_iron_condor", args |-> [params |-> p]] :
        p \in {q \in IronCondorParamsInputs : q.quantity = 1 /\ q.expiration = EXPIRATION /\ q.put_sell_strike = 1450 /\ q.call_buy_strike = 1550}}

FilterEngineCalls ==
    {[op |-> "filter", args |-> [criteria |-> [NoCriteria EXCEPT !.strategy_type = Some(IRON_CONDOR)]]],
     [op |-> "rank", args |-> [criteria |-> NoCriteria]]}

\* a task before its call
NewTask == [pc |-> "idle", call |-> None, self |-> None, value |-> None]

ConcurrentIdle ==
    /\ strategy = Idle /\ pnl = Idle /\ ret = Idle
    /\ filtered = Idle /\ ranked = Idle /\ rankedRev = Idle
    /\ history = Idle /\ btSimple = Idle /\ btVector = Idle
    /\ backtester = Idle /\ VECTORBT_AVAILABLE = Idle
    /\ PY_VOLLIB_AVAILABLE = Idle /\ QUANTLIB_AVAILABLE = Idle

ConcurrentOthersUnchanged == UNCHANGED <<strategy, pnl, ret, results, filtered, ranked, rankedRev, history, btSimple, btVector, chain, backtester, VECTORBT_AVAILABLE, PY_VOLLIB_AVAILABLE, QUANTLIB_AVAILABLE>>

\* the heap with one more object
Allocate(id, attributes) == [o \in DOMAIN heap \cup {id} |-> IF o = id THEN attributes ELSE heap[o]]

\* the state after the modules were imported: both globals are None
InitConcurrent ==
    /\ _analyzer = None
    /\ _filter_engine = None
    /\ heap = <<>>
    /\ tasks = [t \in Tasks |-> NewTask]
    /\ results \in SharedResults
    /\ chain \in SharedChains
    /\ ConcurrentIdle

\* a caller starts `(await get_analyzer()).analyze_*(params, chain)`; the first statement
\* of get_analyzer is `if _analyzer is None:`
GetAnalyzerTest(t) ==
    /\ tasks[t].pc = "idle"
    /\ \E call \in AnalyzerCalls :
           tasks' = [tasks EXCEPT ![t].call = Some(call),
                                  ![t].pc = IF _analyzer = None THEN "get_analyzer:create" ELSE "get_analyzer:return"]
    /\ UNCHANGED <<_analyzer, _filter_engine, heap>>
    /\ ConcurrentOthersUnchanged

\* get_analyzer: `_analyzer = StrategyAnalyzer()`
GetAnalyzerCreate(t) ==
    /\ tasks[t].pc = "get_analyzer:create"
    /\ heap' = Allocate(<<"StrategyAnalyzer", t>>, StrategyAnalyzer_init)
    /\ _analyzer' = Some(<<"StrategyAnalyzer", t>>)
    /\ tasks' = [tasks EXCEPT ![t].pc = "get_analyzer:return"]
    /\ UNCHANGED _filter_engine
    /\ ConcurrentOthersUnchanged

\* get_analyzer: `return _analyzer`
GetAnalyzerReturn(t) ==
    /\ tasks[t].pc = "get_analyzer:return"
    /\ tasks' = [tasks EXCEPT ![t].pc = "call", ![t].self = _analyzer]
    /\ UNCHANGED <<_analyzer, _filter_engine, heap>>
    /\ ConcurrentOthersUnchanged

\* a caller starts `get_filter_engine().filter(results, criteria)` or `.rank(results)`;
\* the first statement of get_filter_engine is `if _filter_engine is None:`
GetFilterEngineTest(t) ==
    /\ tasks[t].pc = "idle"
    /\ \E call \in FilterEngineCalls :
           tasks' = [tasks EXCEPT ![t].call = Some(call),
                                  ![t].pc = IF _filter_engine = None THEN "get_filter_engine:create" ELSE "get_filter_engine:return"]
    /\ UNCHANGED <<_analyzer, _filter_engine, heap>>
    /\ ConcurrentOthersUnchanged

\* get_filter_engine: `_filter_engine = FilterEngine()`
GetFilterEngineCreate(t) ==
    /\ tasks[t].pc = "get_filter_engine:create"
    /\ heap' = Allocate(<<"FilterEngine", t>>, FilterEngine_init)
    /\ _filter_engine' = Some(<<"FilterEngine", t>>)
    /\ tasks' = [tasks EXCEPT ![t].pc = "get_filter_engine:return"]
    /\ UNCHANGED _analyzer
    /\ ConcurrentOthersUnchanged

\* get_filter_engine: `return _filter_engine`
GetFilterEngineReturn(t) ==
    /\ tasks[t].pc = "get_filter_engine:return"
    /\ tasks' = [tasks EXCEPT ![t].pc = "call", ![t].self = _filter_engine]
    /\ UNCHANGED <<_analyzer, _filter_engine, heap>>
    /\ ConcurrentOthersUnchanged

\* the method runs on the object the accessor returned
MethodCall(t) ==
    /\ tasks[t].pc = "call"
    /\ LET self == TheVal(tasks[t].self)
           done == EngineCall(heap[self], TheVal(tasks[t].call), results, chain)
       IN  /\ tasks' = [tasks EXCEPT ![t].pc = "done", ![t].value = Some(done.value)]
           /\ heap' = [heap EXCEPT ![self] = done.self]
    /\ UNCHANGED <<_analyzer, _filter_engine>>
    /\ ConcurrentOthersUnchanged

NextConcurrent ==
    \E t \in Tasks :
        \/ GetAnalyzerTest(t)
        \/ GetAnalyzerCreate(t)
        \/ GetAnalyzerReturn(t)
        \/ GetFilterEngineTest(t)
        \/ GetFilterEngineCreate(t)
        \/ GetFilterEngineReturn(t)
        \/ MethodCall(t)

SpecConcurrent == InitConcurrent /\ [][NextConcurrent]_vars

(***************************************************************************)
(* filter, rank and filter_and_rank as calls on the caller's list          *)
(* (specification SpecFrame): the value returned, and the argument list as *)
(* the call leaves it.                                                     *)
(***************************************************************************)
\* mutant: rank sorts the list it was given in place
Mutant_FilterEngine_rank_in_place(results_) ==
    [value |-> rank(results_), results |-> [i \in 1..Len(rank(results_)) |-> rank(results_)[i].result]]

\* filter rebinds the local name `filtered` to new lists and assigns nothing else
FilterEngine_filter(results_, criteria) ==
    [value |-> filter(results_, criteria), results |-> results_]

\* rank appends to and sorts `rankings`, its own new list
FilterEngine_rank(results_) ==
    [value |-> rank(results_), results |-> results_]

\* no stage of filter runs: `filtered` is still the argument list itself
ReturnsArgument(criteria) ==
    /\ criteria.symbol \in {None, Some("")}
    /\ \A f \in DOMAIN criteria \ {"symbol"} : criteria[f] = None

\* filter then rank; rank works on the caller's own list when filter returned it
filter_and_rank(results_, criteria) ==
    LET filtered_ == FilterEngine_filter(results_, criteria)
        ranked_ == FilterEngine_rank(filtered_.value)
    IN  [value |-> ranked_.value,
         results |-> IF ReturnsArgument(criteria) THEN ranked_.results ELSE filtered_.results]

FrameCriteria ==
    {NoCriteria, [NoCriteria EXCEPT !.symbol = Some("aapl")], [NoCriteria EXCEPT !.symbol = Some("")],
     [NoCriteria EXCEPT !.strategy_type = Some(IRON_CONDOR)], [NoCriteria EXCEPT !.min_profit = Some(40000)]}

FrameIdle ==
    /\ strategy = Idle /\ pnl = Idle
    /\ filtered = Idle /\ ranked = Idle /\ rankedRev = Idle
    /\ history = Idle /\ btSimple = Idle /\ btVector = Idle
    /\ chain = Idle /\ backtester = Idle /\ VECTORBT_AVAILABLE = Idle /\ ModulesIdle

FrameOthersUnchanged == UNCHANGED <<strategy, pnl, filtered, ranked, rankedRev, history, btSimple, btVector, chain, backtester, VECTORBT_AVAILABLE, PY_VOLLIB_AVAILABLE, QUANTLIB_AVAILABLE, _analyzer, _filter_engine, tasks, heap>>

InitFrame ==
    /\ results \in SeqsUpTo(ResultPool, MaxResults)
    /\ ret = NoCall
    /\ FrameIdle

\* engine.filter(results, criteria)
FilterCall ==
    /\ \E criteria \in FrameCriteria :
           LET done == FilterEngine_filter(results, criteria)
           IN  /\ ret' = Some([op |-> "filter", args |-> [criteria |-> criteria], value |-> done.value])
               /\ results' = done.results
    /\ FrameOthersUnchanged

\* engine.rank(results)
RankCall ==
    /\ LET done == FilterEngine_rank(results)
       IN  /\ ret' = Some([op |-> "rank", args |-> [criteria |-> NoCriteria], value |-> done.value])
           /\ results' = done.results
    /\ FrameOthersUnchanged

\* engine.filter_and_rank(results, criteria)
FilterAndRankCall ==
    /\ \E criteria \in FrameCriteria :
           LET done == filter_and_rank(results, criteria)
           IN  /\ ret' = Some([op |-> "filter_and_rank", args |-> [criteria |-> criteria], value |-> done.value])
               /\ results' = done.results
    /\ FrameOthersUnchanged

NextFrame ==
    \/ FilterCall
    \/ RankCall
    \/ FilterAndRankCall

SpecFrame == InitFrame /\ [][NextFrame]_vars

(***************************************************************************)
(* Claims about the payoff methods (specification Spec).                   *)
(***************************************************************************)
IsCoveredCall == strategy.strategy_type = COVERED_CALL
IsIronCondor == strategy.strategy_type = IRON_CONDOR

\* C1: for a Covered Call with call_strike >= stock_price, calculate_max_profit()
\* returns (call_strike - stock_price)*stock_quantity + bid*100*call_quantity, and
\* calculate_profit_loss(call_strike) returns the same amount.
C1_CoveredCallMaxProfit ==
    (IsCoveredCall /\ strategy.call_strike >= strategy.stock_price) =>
        LET expected == (strategy.call_strike - strategy.stock_price) * strategy.stock_quantity
                        + strategy.call_contract.bid * 100 * strategy.call_quantity
        IN  /\ \A r \in ret : r.op = "max_profit" => r.value = expected
            /\ \A c \in pnl : c.price = strategy.call_strike =>
                   /\ c.value = expected
                   /\ \A r \in ret : r.op = "max_profit" => c.value = r.value

C1_Witness ==
    /\ IsCoveredCall
    /\ strategy.call_strike > strategy.stock_price
    /\ strategy.call_contract.bid > 0
    /\ \E r \in ret : r.op = "max_profit" /\ r.value > 0
    /\ \E c \in pnl : c.price = strategy.call_strike

\* C2: for an Iron Condor (strikes ordered), calculate_max_profit() is the negation
\* of calculate_entry_cost(), i.e. the net credit, and calculate_profit_loss(p)
\* returns that amount for every p strictly between the two short strikes.
C2_IronCondorMaxProfit ==
    IsIronCondor =>
        LET credit == ((strategy.put_sell_contract.bid + strategy.call_sell_contract.bid)
                       - (strategy.put_buy_contract.ask + strategy.call_buy_contract.ask))
                      * 100 * strategy.quantity
        IN  /\ \A r \in ret : r.op = "entry_cost" => r.value = -credit
            /\ \A r \in ret : r.op = "max_profit" => r.value = credit
            /\ \A c \in pnl :
                   (strategy.put_sell_contract.strike < c.price
                    /\ c.price < strategy.call_sell_contract.strike) =>
                       /\ c.value = credit
                       /\ \A r \in ret : r.op = "max_profit" => c.value = r.value

C2_Witness ==
    /\ IsIronCondor
    /\ \E r \in ret : r.op = "max_profit" /\ r.value > 0
    /\ \E c \in pnl : strategy.put_sell_contract.strike < c.price
                      /\ c.price < strategy.call_sell_contract.strike

\* the payoff's largest change per cent of underlying price: rounding a breakeven
\* to the cent moves the payoff by at most half of this
MaxSlope(s) ==
    IF s.strategy_type = COVERED_CALL
    THEN Max(s.stock_quantity, 100 * s.call_quantity)
    ELSE 100 * s.quantity

\* C3: the payoff at every breakeven price returned by calculate_breakeven_points()
\* is 0 up to the rounding of the breakeven price to the cent.
C3_BreakevenIsZero ==
    \A r \in ret : r.op = "breakeven_points" =>
        \A c \in pnl :
            (\E i \in 1..Len(r.value) : r.value[i].price = c.price) =>
                Abs(c.value) <= MaxSlope(strategy)

(***************************************************************************)
(* Claims about the Greeks and the derived ratios (specification           *)
(* SpecAnalyze).                                                           *)
(***************************************************************************)
LegsOf(s) ==
    IF s.strategy_type = COVERED_CALL THEN {s.call_contract}
    ELSE {s.put_sell_contract, s.put_buy_contract, s.call_sell_contract, s.call_buy_contract}

MissingGreek(s) ==
    \E c \in LegsOf(s) : c.delta = None \/ c.gamma = None \/ c.theta = None \/ c.vega = None

\* C8: calculate_greeks() returns None whenever a leg is missing its delta, gamma,
\* theta or vega; an aggregate is returned only from complete leg Greeks.
C8_GreeksNoneWhenMissing ==
    \A r \in ret : (r.op = "greeks" /\ MissingGreek(strategy)) => r.value = None

\* C9: the risk/reward ratio is max_profit / max_loss whenever max_loss != 0 and
\* None exactly when max_loss == 0, as returned by calculate_risk_reward_ratio()
\* and as reported (rounded to 4 places) in the StrategyResult of analyze().
C9_RiskRewardRatio ==
    LET max_profit == calculate_max_profit(strategy)
        max_loss == calculate_max_loss(strategy)
    IN  \A r \in ret :
            /\ r.op = "risk_reward_ratio" =>
                   /\ (r.value = None) <=> (max_loss = 0)
                   /\ max_loss # 0 => r.value = Some(Frac(max_profit, max_loss))
            /\ r.op = "analyze" =>
                   /\ (r.value.risk_reward_ratio = None) <=> (max_loss = 0)
                   /\ max_loss # 0 =>
                          r.value.risk_reward_ratio = Some(Round(max_profit, max_loss, 4))

\* C10: the probability of profit is clamp(|aggregate delta|, 0, 1) whenever the
\* strategy's Greeks are available and None only when they are not, as returned by
\* calculate_probability_of_profit() and as reported in the StrategyResult of analyze().
C10_ProbabilityOfProfit ==
    LET greeks == calculate_greeks(strategy)
        clamp(d) == Min(Max(Abs(d), 0), 100)
    IN  \A r \in ret :
            /\ r.op = "probability_of_profit" =>
                   r.value = {clamp(g.delta) : g \in greeks}
            /\ r.op = "analyze" =>
                   r.value.probability_of_profit = {100 * clamp(g.delta) : g \in greeks}


(***************************************************************************)
(* Claims about filter and rank (specification SpecRank).                  *)
(***************************************************************************)
ResultsOf(rankings) == [i \in 1..Len(rankings) |-> rankings[i].result]

WithScore(list, score) ==
    LET has(r) == _default_scoring_function(r) = score
    IN  SelectSeq(list, has)

\* C5 as stated: ranking the reversed list gives the same output as ranking the
\* list, for every list of results.
C5_RankReversedIdentical ==
    \A a \in ranked : \A b \in rankedRev : a = b

\* C5 as amended: ranking the reversed list gives the same output as ranking the
\* list whenever no two different results of the list have the same score.
C5_RankReversedIdenticalNoTies ==
    (\A i, j \in 1..Len(results) :
        results[i] # results[j] =>
            _default_scoring_function(results[i]) # _default_scoring_function(results[j]))
    => \A a \in ranked : \A b \in rankedRev : a = b

C5_Witness ==
    /\ Len(results) = 3
    /\ \A i, j \in 1..Len(results) :
           i # j => _default_scoring_function(results[i]) # _default_scoring_function(results[j])
    /\ \E a \in ranked : \E b \in rankedRev :
           a = b /\ ResultsOf(a) # results /\ ResultsOf(a) # Reverse(results)

\* C6: rank() returns the rankings in descending order of score, and results with
\* equal scores keep the relative order they have in the input list.
C6_RankSortedStable ==
    \A a \in ranked :
        /\ Len(a) = Len(results)
        /\ \A i \in 1..Len(a) : a[i].score = _default_scoring_function(a[i].result)
        /\ \A i \in 1..(Len(a) - 1) : a[i].score >= a[i + 1].score
        /\ \A i \in 1..Len(a) :
               WithScore(ResultsOf(a), a[i].score) = WithScore(results, a[i].score)

C6_Witness ==
    \E a \in ranked :
        /\ ResultsOf(a) # results
        /\ \E i \in 1..(Len(a) - 1) :
               a[i].score = a[i + 1].score /\ a[i].result # a[i + 1].result
        /\ \E i \in 1..(Len(a) - 1) : a[i].score > a[i + 1].score

\* C7: for two criteria A and B, filtering by A then B returns the same list as
\* filtering by B then A, and, when A and B set different fields, the same list as
\* filtering by the one criteria object holding both.
C7_FilterCommutes ==
    \A f \in filtered :
        Len(f.applied) = 2 =>
            /\ f.out = filter(filter(results, f.applied[2]), f.applied[1])
            /\ SetFields(f.applied[1]) \cap SetFields(f.applied[2]) = {} =>
                   f.out = filter(results, Merge(f.applied[1], f.applied[2]))

C7_Witness ==
    \E f \in filtered :
        /\ Len(f.applied) = 2
        /\ SetFields(f.applied[1]) \cap SetFields(f.applied[2]) = {}
        /\ f.out # <<>>
        /\ f.out # filter(results, f.applied[1])
        /\ f.out # filter(results, f.applied[2])

(***************************************************************************)
(* Claims about the backtester (specification SpecBacktest).               *)
(***************************************************************************)
\* C4: on the same strategy, series (here: of valid, positive prices) and initial
\* capital, the vectorized path and the row-by-row path give the same equity curve,
\* win rate, trade counts and per-point trade log values.
C4_BacktestPathsEquivalent ==
    (\A i \in 1..Len(history) : history[i].underlying_price > 0) =>
    \A a \in btSimple : \A b \in btVector :
        /\ a.equity_curve = b.equity_curve
        /\ a.win_rate = b.win_rate
        /\ a.total_trades = b.total_trades
        /\ a.profitable_trades = b.profitable_trades
        /\ Len(a.trades) = Len(b.trades)
        /\ \A i \in 1..Min(Len(a.trades), Len(b.trades)) :
               /\ a.trades[i].underlying_price = b.trades[i].underlying_price
               /\ a.trades[i].pnl = b.trades[i].pnl
               /\ a.trades[i].capital = b.trades[i].equity

\* the rows of the series that carry a positive price, in series order
PositiveRows == SelectSeq(history, LAMBDA row : row.underlying_price > 0)

\* C17: the row-by-row backtest logs exactly the rows with a positive price, in series
\* order, each with pnl = profit_loss(price) and capital = initial_capital + pnl (not
\* cumulative); the equity curve is initial_capital followed by these capitals and
\* total_return = (last equity value - initial_capital) / initial_capital * 100.
C17_RowByRowTradeLog ==
    \A b \in btSimple : \E initial_capital \in InitialCapitals :
        LET n == Len(PositiveRows)
            pnlAt(i) == calculate_profit_loss(strategy, PositiveRows[i].underlying_price)
            last == IF n = 0 THEN initial_capital ELSE initial_capital + pnlAt(n)
        IN  /\ Len(b.trades) = n
            /\ b.total_trades = n
            /\ \A i \in 1..n :
                   /\ b.trades[i].timestamp = PositiveRows[i].timestamp
                   /\ b.trades[i].underlying_price = PositiveRows[i].underlying_price
                   /\ b.trades[i].pnl = pnlAt(i)
                   /\ b.trades[i].capital = initial_capital + pnlAt(i)
            /\ b.equity_curve = <<initial_capital>> \o [i \in 1..n |-> initial_capital + pnlAt(i)]
            /\ b.total_return = Frac((last - initial_capital) * 100, initial_capital)

\* a series with a skipped row and two logged rows whose first P&L is not zero
C17_Witness ==
    \E b \in btSimple :
        /\ \E i \in 1..Len(history) : history[i].underlying_price = 0
        /\ Len(b.trades) = 2
        /\ b.trades[1].pnl # 0
        /\ b.trades[2].pnl # 0
        /\ b.trades[2].capital = b.equity_curve[1] + b.trades[2].pnl

\* every row of the series sits at the strategy's (single) breakeven price
FlatAtBreakeven ==
    /\ Len(calculate_breakeven_points(strategy)) = 1
    /\ \A i \in 1..Len(history) :
           history[i].underlying_price = calculate_breakeven_points(strategy)[1].price

\* C18: win_rate is the percentage of logged points with P&L strictly positive and is
\* None only when there are no trades; a flat series at a Covered Call's breakeven
\* yields total_return = 0, profitable_trades = 0 and win_rate = 0.
C18_WinRateAtBreakeven ==
    \A b \in btSimple :
        LET pnls == [i \in 1..Len(b.trades) |-> b.trades[i].pnl]
            wins == Cardinality({i \in 1..Len(pnls) : pnls[i] > 0})
        IN  /\ b.win_rate = None <=> b.trades = <<>>
            /\ b.trades # <<>> => b.win_rate = Some(Frac(wins * 100, Len(b.trades)))
            /\ b.profitable_trades = wins
            /\ (IsCoveredCall /\ FlatAtBreakeven) =>
                   /\ b.total_return.num = 0
                   /\ b.profitable_trades = 0
                   /\ \E w \in b.win_rate : w.num = 0

(***************************************************************************)
(* Claims about construction (specification SpecConstruct).                *)
(***************************************************************************)
\* C11: constructing an IronCondor succeeds if and only if the legs' strikes satisfy
\* put_buy < put_sell < call_sell < call_buy; otherwise a ValueError is raised and
\* no object is produced; a produced object holds the legs as given.
C11_IronCondorValidation ==
    \A r \in ret : r.op = "IronCondor" =>
        LET a == r.args
            ordered == /\ a.put_buy_contract.strike < a.put_sell_contract.strike
                       /\ a.put_sell_contract.strike < a.call_sell_contract.strike
                       /\ a.call_sell_contract.strike < a.call_buy_contract.strike
        IN  /\ (r.value.raised = None) <=> ordered
            /\ ~ordered => r.value = Raise("ValueError")
            /\ ordered =>
                   \E s \in r.value.value :
                       /\ s.put_sell_contract = a.put_sell_contract
                       /\ s.put_buy_contract = a.put_buy_contract
                       /\ s.call_sell_contract = a.call_sell_contract
                       /\ s.call_buy_contract = a.call_buy_contract
                       /\ s.quantity = a.quantity /\ s.symbol = a.symbol

C11_Witness ==
    \E r \in ret :
        /\ r.op = "IronCondor"
        /\ r.args.put_buy_contract.strike < r.args.put_sell_contract.strike
        /\ r.args.put_sell_contract.strike = r.args.call_sell_contract.strike
        /\ r.args.call_sell_contract.strike < r.args.call_buy_contract.strike
        /\ r.value.raised = Some("ValueError")

(***************************************************************************)
(* Claims about the analyzer (specification SpecAnalyzer).                 *)
(***************************************************************************)
ContractsOf(chain_) == {chain_.contracts[i] : i \in 1..Len(chain_.contracts)}

Occurrences(list, x) == Cardinality({i \in 1..Len(list) : list[i] = x})

\* the 4-tuples <<put_buy, put_sell, call_sell, call_buy>> at an expiration whose
\* strikes are strictly ordered
OrderedTuples(chain_, expiration) ==
    LET puts == {c \in ContractsOf(chain_) : c.expiration = expiration /\ c.option_type = PUT}
        calls == {c \in ContractsOf(chain_) : c.expiration = expiration /\ c.option_type = CALL}
    IN  {x \in puts \X puts \X calls \X calls :
            x[1].strike < x[2].strike /\ x[2].strike < x[3].strike /\ x[3].strike < x[4].strike}

CondorOf(symbol, x, quantity) == IronCondor(symbol, x[2], x[1], x[3], x[4], quantity)

Named(chain_, expiration, option_type, strike) ==
    {c \in ContractsOf(chain_) :
        c.expiration = expiration /\ c.option_type = option_type /\ c.strike = strike}

\* C13: analyze_iron_condor does not raise; it returns an empty list when one of the
\* four named contracts is absent from the chain, and otherwise at most one result,
\* built from exactly those four contracts.
C13_IronCondorLookup ==
    \A r \in ret : r.op = "analyze_iron_condor" =>
        LET p == r.args.params
            put_sell == Named(chain, p.expiration, PUT, p.put_sell_strike)
            put_buy == Named(chain, p.expiration, PUT, p.put_buy_strike)
            call_sell == Named(chain, p.expiration, CALL, p.call_sell_strike)
            call_buy == Named(chain, p.expiration, CALL, p.call_buy_strike)
        IN  /\ r.value.raised = None
            /\ \A out \in r.value.value :
                   IF put_sell = {} \/ put_buy = {} \/ call_sell = {} \/ call_buy = {}
                   THEN out = <<>>
                   ELSE /\ Len(out) <= 1
                        /\ \A i \in 1..Len(out) :
                               out[i] = analyze(IronCondor(p.symbol, TheVal(put_sell),
                                                           TheVal(put_buy), TheVal(call_sell),
                                                           TheVal(call_buy), p.quantity))

C13_Witness ==
    \E r \in ret :
        /\ r.op = "analyze_iron_condor"
        /\ \E out \in r.value.value :
               /\ Len(out) = 1
               /\ out[1].parameters.put_sell_strike = r.args.params.put_sell_strike
               /\ out[1].parameters.expiration = r.args.params.expiration
        /\ Len(chain.contracts) > 4

CallsAt(chain_, expiration) ==
    LET match(c) == c.option_type = CALL /\ c.expiration = expiration
    IN  SelectSeq(chain_.contracts, match)

BreakevenSpread(r) ==
    LET prices == {r.breakeven_points[i].price : i \in 1..Len(r.breakeven_points)}
    IN  IF Len(r.breakeven_points) < 2 THEN 0
        ELSE (CHOOSE x \in prices : \A y \in prices : x >= y)
             - (CHOOSE x \in prices : \A y \in prices : x <= y)

\* every criterion of c other than the symbol is null or satisfied by r
SatisfiesThresholds(r, c) ==
    /\ \A x \in c.strategy_type : r.strategy_type = x
    /\ \A x \in c.min_profit : r.max_profit >= x
    /\ \A x \in c.min_risk_reward : \E y \in r.risk_reward_ratio : y >= x
    /\ \A x \in c.min_probability : \E y \in r.probability_of_profit : y >= x
    /\ \A x \in c.max_loss : r.max_loss <= x
    /\ \A x \in c.min_premium_collected : r.entry_cost < 0 /\ Abs(r.entry_cost) >= x
    /\ \A x \in c.max_breakeven_range : BreakevenSpread(r) <= x

SameSymbol(a, b) == Upper(a) = Upper(b)

\* C15 as stated: filter keeps a result if and only if it satisfies every non-null
\* criterion (the symbol criterion: equal case-insensitively), in input order.
C15_FilterKeepsIffAllCriteria ==
    \A f \in filtered : Len(f.applied) = 1 =>
        LET c == f.applied[1]
            keep(r) == /\ \A x \in c.symbol : SameSymbol(r.symbol, x)
                       /\ SatisfiesThresholds(r, c)
        IN  f.out = SelectSeq(results, keep)

\* C15 as amended: filter keeps a result if and only if it satisfies every criterion
\* that is non-null and, for the symbol, not the empty string, in input order.
C15_FilterKeepsIffAllSetCriteria ==
    \A f \in filtered : Len(f.applied) = 1 =>
        LET c == f.applied[1]
            keep(r) == /\ \A x \in c.symbol : x # "" => SameSymbol(r.symbol, x)
                       /\ SatisfiesThresholds(r, c)
        IN  f.out = SelectSeq(results, keep)

\* three results, one below and two at or above min_profit: the two are returned
C15_Witness ==
    \E f \in filtered :
        /\ Len(f.applied) = 1
        /\ SetFields(f.applied[1]) = {"min_profit"}
        /\ Len(results) = 3
        /\ Len(f.out) = 2
        /\ results[1].max_profit < TheVal(f.applied[1].min_profit)
        /\ f.out = <<results[2], results[3]>>
        /\ results[2].max_profit # results[3].max_profit

(***************************************************************************)
(* Claims about the StrategyBacktester object (specification               *)
(* SpecBacktester).                                                        *)
(***************************************************************************)
\* the rows of the series within the given bounds, each bound counted only when given
InRangeRows(start_date, end_date) ==
    SelectSeq(history, LAMBDA row : /\ \A d \in start_date : d <= row.timestamp
                                    /\ \A d \in end_date : row.timestamp <= d)

RowsOf(trades) ==
    [i \in 1..Len(trades) |-> [timestamp |-> trades[i].timestamp,
                               underlying_price |-> trades[i].underlying_price]]

\* C16: backtest_strategy works on exactly the rows with start <= timestamp <= end (each
\* bound only when given, both inclusive) and raises the empty-data ValueError, returning
\* no BacktestResult, exactly when the series is empty or no row is in the range.
C16_DateRangeRestriction ==
    \A call \in ret : call.op = "backtest_strategy" =>
        LET rows == InRangeRows(call.args.start_date, call.args.end_date)
            evaluated == IF backtester.self.use_vectorbt THEN rows
                         ELSE SelectSeq(rows, LAMBDA row : row.underlying_price > 0)
        IN  /\ rows = <<>> => call.value = Raise("ValueError")
            /\ rows # <<>> => call.value.raised # Some("ValueError")
            /\ \A result \in call.value.value :
                   /\ RowsOf(result.trades) = evaluated
                   /\ \A d \in call.args.start_date : result.start_date = d
                   /\ \A d \in call.args.end_date : result.end_date = d
                   /\ call.args.start_date = None => result.start_date = SeqMin(Timestamps(rows))
                   /\ call.args.end_date = None => result.end_date = SeqMax(Timestamps(rows))

\* both bounds given and equal: the row on the bound is kept, an earlier and a later
\* row are dropped
C16_Witness ==
    \E call \in ret :
        /\ call.op = "backtest_strategy"
        /\ call.args.start_date # None /\ call.args.end_date = call.args.start_date
        /\ \E i, j, k \in 1..Len(history) :
               /\ history[i].timestamp < TheVal(call.args.start_date)
               /\ history[j].timestamp = TheVal(call.args.start_date)
               /\ history[k].timestamp > TheVal(call.args.end_date)
               /\ history[j].underlying_price > 0
        /\ \E result \in call.value.value : Len(result.trades) = 1

\* C19: compare_strategies never raises; it returns, in input order, the result of
\* every strategy whose own backtest_strategy call does not raise and nothing for
\* the others, whether they come before or after a failing one.
C19_CompareSkipsFailures ==
    \A call \in ret : call.op = "compare_strategies" =>
        LET a == call.args
            n == Len(a.strategies)
            single(i) == backtest_strategy(backtester.self, a.strategies[i], history, a.start_date, a.end_date, a.initial_capital)
            ok == {i \in 1..n : single(i).raised = None}
        IN  /\ call.value.raised = None
            /\ \E out \in call.value.value :
                   /\ Len(out) = Cardinality(ok)
                   /\ \E f \in [1..Len(out) -> 1..n] :
                          /\ {f[k] : k \in 1..Len(out)} = ok
                          /\ \A j, k \in 1..Len(out) : j < k => f[j] < f[k]
                          /\ \A k \in 1..Len(out) : out[k] = TheVal(single(f[k]).value)

\* a strategy whose backtest raises, followed by one whose backtest succeeds
C19_Witness ==
    \E call \in ret :
        /\ call.op = "compare_strategies"
        /\ Len(call.args.strategies) = 2
        /\ backtest_strategy(backtester.self, call.args.strategies[1], history, call.args.start_date, call.args.end_date, call.args.initial_capital).raised = Some("TypeError")
        /\ \E out \in call.value.value :
               /\ Len(out) = 1
               /\ out[1].strategy_type = call.args.strategies[2].strategy_type
               /\ out[1].trades # <<>>

\* the result carries the marks of the row-by-row path: an equity list that starts
\* with the initial capital and has one more entry than the trade log, trades with a
\* capital, no Sharpe ratio
RowByRowResult(result, initial_capital) ==
    /\ Len(result.equity_curve) = Len(result.trades) + 1
    /\ result.equity_curve[1] = initial_capital
    /\ \A i \in 1..Len(result.trades) : "capital" \in DOMAIN result.trades[i]
    /\ result.sharpe_ratio = None

EngineChosen ==
    /\ backtester.self.use_vectorbt => backtester.self.engine # None
    /\ (backtester.args.use_vectorbt /\ ~VECTORBT_AVAILABLE) =>
           /\ backtester.self.use_vectorbt = FALSE
           /\ \A call \in ret : call.op = "backtest_strategy" =>
                  \A result \in call.value.value : RowByRowResult(result, call.args.initial_capital)

\* C20: the engine is chosen at construction and never changed; use_vectorbt = TRUE
\* implies an engine; when the vectorized engine was requested but is unavailable,
\* use_vectorbt is FALSE and every backtest_strategy call takes the row-by-row path.
C20_EngineChosenAtConstruction == []EngineChosen /\ [][backtester' = backtester]_vars

\* requested, unavailable, and a backtest_strategy call that logged a trade
C20_Witness ==
    /\ backtester.args.use_vectorbt /\ ~VECTORBT_AVAILABLE
    /\ \E call \in ret :
           /\ call.op = "backtest_strategy"
           /\ \E result \in call.value.value : result.trades # <<>>

(***************************************************************************)
(* Claims about the profit profile (specifications SpecAnalyze, SpecProfile)*)
(***************************************************************************)
ProfilePrices(profile) == {profile[i].underlying_price : i \in 1..Len(profile)}

\* C21: the profit profile of analyze() covers the strategy's strikes: its smallest
\* underlying_price is <= the lowest leg strike and its largest is >= the highest.
C21_ProfileCoversStrikes ==
    \A call \in ret : call.op = "analyze" =>
        \A k \in StrikesOf(strategy) :
            /\ \E p \in ProfilePrices(call.value.profit_profile) : p <= k
            /\ \E p \in ProfilePrices(call.value.profit_profile) : p >= k

\* C22: generate_profit_profile(min_price, max_price, n) returns n + 1 points in
\* non-decreasing price order, the first at min_price and the last at max_price, each
\* within half a cent of the evenly spaced grid, carrying the payoff at its grid price
\* and roi = profit_loss / |entry_cost| * 100 (hundredths of a percent), roi = 0 at
\* every point when entry_cost is 0.
C22_ProfileEvenlySpaced ==
    \A call \in ret : call.op = "generate_profit_profile" =>
        LET a == call.args
            n == a.num_points
            profile == call.value
            entry_cost == calculate_entry_cost(strategy)
            grid(i) == a.min_price * n + (i - 1) * (a.max_price - a.min_price)
            below(i) == grid(i) \div n
            above(i) == IF grid(i) % n = 0 THEN below(i) ELSE below(i) + 1
            plLow(i) == Min(calculate_profit_loss(strategy, below(i)), calculate_profit_loss(strategy, above(i)))
            plHigh(i) == Max(calculate_profit_loss(strategy, below(i)), calculate_profit_loss(strategy, above(i)))
        IN  /\ Len(profile) = n + 1
            /\ profile[1].underlying_price = a.min_price
            /\ profile[n + 1].underlying_price = a.max_price
            /\ \A i \in 1..n : profile[i].underlying_price <= profile[i + 1].underlying_price
            /\ \A i \in 1..(n + 1) :
                   /\ 2 * Abs(n * profile[i].underlying_price - grid(i)) <= n
                   /\ plLow(i) <= profile[i].profit_loss /\ profile[i].profit_loss <= plHigh(i)
                   /\ entry_cost = 0 => profile[i].roi = 0
                   /\ entry_cost # 0 =>
                          /\ Round(plLow(i) * 100, Abs(entry_cost), 2) <= profile[i].roi
                          /\ profile[i].roi <= Round(plHigh(i) * 100, Abs(entry_cost), 2)

\* a grid that does not fall on whole cents, on a strategy with a non-zero entry cost
\* and a payoff that is not flat over the range
C22_Witness ==
    \E call \in ret :
        /\ call.op = "generate_profit_profile"
        /\ (call.args.max_price - call.args.min_price) % call.args.num_points # 0
        /\ call.args.num_points >= 3
        /\ calculate_entry_cost(strategy) # 0
        /\ call.value[1].profit_loss # call.value[2].profit_loss
        /\ call.value[2].roi # 0

\* a strategy whose entry cost is 0: every roi is 0 although the payoff is not
C22_WitnessZeroEntryCost ==
    \E call \in ret :
        /\ call.op = "generate_profit_profile"
        /\ calculate_entry_cost(strategy) = 0
        /\ \E i \in 1..Len(call.value) : call.value[i].profit_loss # 0

(***************************************************************************)
(* Claims about the default score (specification SpecScore).               *)
(***************************************************************************)
\* C23: the default score is 0.3*min(max_profit/10000, 1), plus 0.3*min(rr/10, 1) if the
\* risk/reward ratio is present, plus 0.2*probability_of_profit if present, plus
\* 0.2*min(|entry_cost|/5000, 1) if entry_cost < 0 and nothing for entry_cost >= 0
\* (score in 10^-7, money in cents, ratios in 10^-4).
C23_DefaultScore ==
    \A call \in ret : call.op = "_default_scoring_function" =>
        LET r == results[1]
            profit_term == IF r.max_profit >= 1000000 THEN 3000000 ELSE 3 * r.max_profit
            rr_term == IF r.risk_reward_ratio = None THEN 0
                       ELSE IF TheVal(r.risk_reward_ratio) >= 100000 THEN 3000000
                       ELSE 30 * TheVal(r.risk_reward_ratio)
            prob_term == IF r.probability_of_profit = None THEN 0
                         ELSE 200 * TheVal(r.probability_of_profit)
            premium_term == IF r.entry_cost >= 0 THEN 0
                            ELSE IF -r.entry_cost >= 500000 THEN 2000000
                            ELSE 4 * (-r.entry_cost)
        IN  call.value = profit_term + rr_term + prob_term + premium_term

\* a debit result with every optional term present and the risk/reward term capped
C23_Witness ==
    \E call \in ret :
        /\ call.op = "_default_scoring_function"
        /\ results[1].entry_cost > 0
        /\ results[1].max_profit = 50000
        /\ results[1].risk_reward_ratio = Some(250000)
        /\ results[1].probability_of_profit = Some(6000)
        /\ call.value = 150000 + 3000000 + 1200000

(***************************************************************************)
(* Claims about the shape of the payoff (specification Spec).              *)
(***************************************************************************)
PL(x) == calculate_profit_loss(strategy, x)

\* x, y, z lie on one straight line of the payoff
OnOneLine(x, y, z) == (PL(y) - PL(x)) * (z - x) = (PL(z) - PL(x)) * (y - x)

\* C24: profit_loss is continuous and piecewise-linear: at a strike the payoff lies on
\* the line of the segment to its left and on the line of the segment to its right,
\* and a price between two consecutive strikes lies on the straight line through the
\* payoffs at those strikes (below the lowest and above the highest strike: on the
\* line through its neighbours).
C24_PayoffContinuousPiecewiseLinear ==
    \A call \in pnl :
        LET p == call.price
            lower == {k \in StrikesOf(strategy) : k < p}
            upper == {k \in StrikesOf(strategy) : k > p}
        IN  /\ call.value = PL(p)
            /\ p \in StrikesOf(strategy) =>
                   /\ OnOneLine(p - 2, p - 1, p)
                   /\ OnOneLine(p, p + 1, p + 2)
            /\ (p \notin StrikesOf(strategy) /\ lower # {} /\ upper # {}) =>
                   LET a == CHOOSE k \in lower : \A j \in lower : j <= k
                       b == CHOOSE k \in upper : \A j \in upper : k <= j
                   IN  OnOneLine(a, p, b)
            /\ (p \notin StrikesOf(strategy) /\ (lower = {} \/ upper = {})) =>
                   OnOneLine(p - 1, p, p + 1)

\* the payoff was taken at a strike where its slope changes
C24_Witness ==
    \E call \in pnl :
        /\ call.price \in StrikesOf(strategy)
        /\ PL(call.price + 1) - PL(call.price) # PL(call.price) - PL(call.price - 1)
        /\ call.value # 0

\* the payoff was taken strictly between two strikes of an iron condor, on a sloped side
C24_WitnessBetweenStrikes ==
    \E call \in pnl :
        /\ IsIronCondor
        /\ call.price > strategy.put_buy_contract.strike
        /\ call.price < strategy.put_sell_contract.strike
        /\ PL(call.price) # PL(strategy.put_sell_contract.strike)

(***************************************************************************)
(* Claims about the reported extremes (specification Spec).                *)
(***************************************************************************)
\* C27: for an iron condor, at every price at or below put_buy_strike or at or above
\* call_buy_strike the payoff equals -calculate_max_loss().
C27_IronCondorMaxLossAtWings ==
    \A call \in pnl :
        (/\ IsIronCondor
         /\ \/ call.price <= strategy.put_buy_contract.strike
            \/ call.price >= strategy.call_buy_contract.strike)
        => call.value = -calculate_max_loss(strategy)

\* C28: for a covered call, at every price p >= 0 the payoff lies between
\* -calculate_max_loss() and calculate_max_profit().
C28_CoveredCallExtremesBound ==
    \A call \in pnl :
        (IsCoveredCall /\ call.price >= 0) =>
            /\ -calculate_max_loss(strategy) <= call.value
            /\ call.value <= calculate_max_profit(strategy)

\* C29: for an iron condor, at every price p >= 0 the payoff lies between
\* -calculate_max_loss() and calculate_max_profit().
C29_IronCondorExtremesBound ==
    \A call \in pnl :
        (IsIronCondor /\ call.price >= 0) =>
            /\ -calculate_max_loss(strategy) <= call.value
            /\ call.value <= calculate_max_profit(strategy)

\* the payoff beyond the long call of a condor whose call spread is the wider one
C29_Witness ==
    \E call \in pnl :
        /\ IsIronCondor
        /\ call.price > strategy.call_buy_contract.strike
        /\ strategy.call_buy_contract.strike - strategy.call_sell_contract.strike
               > strategy.put_sell_contract.strike - strategy.put_buy_contract.strike
        /\ call.value < 0
        /\ call.value >= -calculate_max_loss(strategy)

\* a condor whose credit exceeds both spreads: max_loss is floored at 0
C29_WitnessFloored ==
    \E call \in pnl :
        /\ IsIronCondor
        /\ calculate_max_loss(strategy) = 0
        /\ call.price <= strategy.put_buy_contract.strike
        /\ call.value > 0

(***************************************************************************)
(* Claims about the pricing functions (specification SpecPricing).         *)
(***************************************************************************)
NoBackend == ~PY_VOLLIB_AVAILABLE /\ ~QUANTLIB_AVAILABLE

\* the library the call reaches raised (for QuantLib's implied volatility: while the
\* option was built, or in the solver)
BackendFailed(call) ==
    /\ call.args.time_to_expiration > 0
    /\ IF call.args.use_quantlib /\ QUANTLIB_AVAILABLE
       THEN IF call.op = "calculate_implied_volatility"
            THEN call.args.ql.setup.raised # None \/ call.args.ql.impliedVolatility.raised # None
            ELSE call.args.ql.raised # None
       ELSE PY_VOLLIB_AVAILABLE /\ call.args.vollib.raised # None

\* C25 (as stated): when neither py_vollib nor QuantLib is available, for any inputs
\* calculate_black_scholes_price and calculate_implied_volatility return None and
\* calculate_greeks returns the all-zero map; none of the three functions raises.
C25_NoBackendGivesNone ==
    \A call \in ret :
        /\ call.value.raised = None
        /\ NoBackend =>
               /\ call.op = "calculate_black_scholes_price" => call.value.value = Some(None)
               /\ call.op = "calculate_implied_volatility" => call.value.value = Some(None)
               /\ call.op = "calculate_greeks" => call.value.value = Some(ZeroGreeks)

\* C25 (amended): none of the three functions raises, also when the library called
\* raises or the solver fails: the price and the implied volatility are then None and
\* the Greeks all zero.  With no backend available calculate_implied_volatility returns
\* None and calculate_greeks the all-zero map for any inputs, and
\* calculate_black_scholes_price returns None when time_to_expiration > 0; when
\* time_to_expiration <= 0 it returns 0.0, with or without a backend.
C25_NoBackendGivesNoneBeforeExpiration ==
    \A call \in ret :
        /\ call.value.raised = None
        /\ (NoBackend \/ BackendFailed(call)) =>
               /\ call.op = "calculate_black_scholes_price" =>
                      call.value.value = (IF call.args.time_to_expiration > 0 THEN Some(None) ELSE Some(Some(0)))
               /\ call.op = "calculate_implied_volatility" => call.value.value = Some(None)
               /\ call.op = "calculate_greeks" => call.value.value = Some(ZeroGreeks)
        /\ (call.op = "calculate_black_scholes_price" /\ call.args.time_to_expiration <= 0) =>
               call.value.value = Some(Some(0))

\* a price was asked before expiration with no backend, and None came back
C25_Witness ==
    \E call \in ret :
        /\ NoBackend
        /\ call.op = "calculate_black_scholes_price"
        /\ call.args.time_to_expiration > 0
        /\ call.value = Return(None)

\* the library reached by a price call raised, and None came back
C25_WitnessBackendRaises ==
    \E call \in ret :
        /\ call.op = "calculate_black_scholes_price"
        /\ BackendFailed(call)
        /\ call.value = Return(None)

\* QuantLib's solver did not converge, and None came back
C25_WitnessSolverFails ==
    \E call \in ret :
        /\ call.op = "calculate_implied_volatility"
        /\ call.args.use_quantlib /\ QUANTLIB_AVAILABLE /\ call.args.time_to_expiration > 0
        /\ call.args.ql.setup.raised = None /\ call.args.ql.impliedVolatility.raised # None
        /\ call.value = Return(None)

(***************************************************************************)
(* Claims about concurrent callers (specification SpecConcurrent).         *)
(***************************************************************************)
\* what the call returns when it is the only call ever made: on a fresh object
AloneResult(call) ==
    IF call.op \in {"filter", "rank"}
    THEN EngineCall(FilterEngine_init, call, results, chain).value
    ELSE EngineCall(StrategyAnalyzer_init, call, results, chain).value

\* the step is a method call made by task t
IsMethodCall(t) == tasks[t].pc = "call" /\ tasks'[t].pc = "done"

\* C26: under every interleaving of the callers' steps, each finished analyze_*, filter and
\* rank call has returned what it returns when run alone; no engine object ever holds an
\* attribute, and a method call writes nothing but its own task's result: not the shared
\* list, the chain, the globals, the objects, or another task.
C26_ConcurrentCallsAsAlone ==
    /\ [](\A t \in Tasks :
              tasks[t].pc = "done" => tasks[t].value = Some(AloneResult(TheVal(tasks[t].call))))
    /\ [](\A o \in DOMAIN heap : heap[o] = {})
    /\ [][\A t \in Tasks :
              IsMethodCall(t) =>
                  /\ UNCHANGED <<results, chain, _analyzer, _filter_engine, heap>>
                  /\ \A u \in Tasks \ {t} : tasks'[u] = tasks[u]]_vars
    /\ [][UNCHANGED <<results, chain>>]_vars

\* two callers have finished a filter and a rank call on the same FilterEngine object
C26_Witness ==
    \E t, u \in Tasks :
        /\ tasks[t].pc = "done" /\ tasks[u].pc = "done"
        /\ tasks[t].self = tasks[u].self
        /\ TheVal(tasks[t].call).op = "filter" /\ TheVal(tasks[u].call).op = "rank"
        /\ Len(TheVal(tasks[t].value)) = 1 /\ Len(TheVal(tasks[u].value)) = 2

\* the accessor raced: two callers each created a StrategyAnalyzer and ran on different objects
C26_WitnessRace ==
    \E t, u \in Tasks :
        /\ tasks[t].pc = "done" /\ tasks[u].pc = "done"
        /\ tasks[t].self # tasks[u].self
        /\ TheVal(tasks[t].call).op = "analyze_covered_call"
        /\ TheVal(tasks[u].call).op = "analyze_iron_condor"
        /\ Len(TheVal(tasks[t].value)) > 0 /\ Len(TheVal(tasks[u].value)) > 0

(***************************************************************************)
(* Claims about the caller's list (specification SpecFrame).               *)
(***************************************************************************)
RECURSIVE IsSubList(_, _)
\* sub is list with some elements left out, the others in their order
IsSubList(sub, list) ==
    IF Len(sub) = 0 THEN TRUE
    ELSE IF Len(list) = 0 THEN FALSE
    ELSE IF Head(sub) = Head(list) THEN IsSubList(Tail(sub), Tail(list))
    ELSE IsSubList(sub, Tail(list))

\* no result occurs more often among the rankings than in the list
EachAtMostOnce(rankings, list) ==
    \A i \in 1..Len(rankings) :
        Occurrences(ResultsOf(rankings), rankings[i].result) <= Occurrences(list, rankings[i].result)

\* C30: no filter, rank or filter_and_rank call changes the caller's list: same results,
\* same order, same field values, however many calls are made; what filter returns is an
\* order-preserving sub-list of the list, and the rankings that rank and filter_and_rank
\* return hold each result of the list at most once.
C30_CallsLeaveResultsUnchanged ==
    /\ [][results' = results]_vars
    /\ [](\A call \in ret :
              /\ call.op = "filter" => IsSubList(call.value, results)
              /\ call.op \in {"rank", "filter_and_rank"} => EachAtMostOnce(call.value, results))

\* filter_and_rank with no criterion set has ranked the caller's own three-element list,
\* and the ranking order differs from the list's order
C30_Witness ==
    \E call \in ret :
        /\ call.op = "filter_and_rank"
        /\ ReturnsArgument(call.args.criteria)
        /\ Len(results) = MaxResults
        /\ Len(call.value) = Len(results)
        /\ ResultsOf(call.value) # results

\* filter has dropped a result from the middle of the list
C30_WitnessFilterDrops ==
    \E call \in ret :
        /\ call.op = "filter"
        /\ Len(results) = 3 /\ Len(call.value) = 2
        /\ call.value = <<results[1], results[3]>>

====
